---------------------------- MODULE Spec2Model ----------------------------
(***************************************************************************)
(* Model of the getevo/network package: the configuration cache            *)
(* (GetConfig / RefreshConfig), the platform discovery it drives           *)
(* (getLinux, getWindows, extractDotted, findCommand) and the ping driver  *)
(* (Ping and its output parsers).                                          *)
(*                                                                         *)
(* Text is modelled as a sequence of one-character strings, so that the    *)
(* fixed-offset slicing, trimming and splitting of the parsers is computed *)
(* as the code computes it.  A nil net.IP / net.HardwareAddr / pointer is  *)
(* the empty sequence, respectively reference 0.                           *)
(***************************************************************************)
EXTENDS Integers, Sequences, FiniteSets, TLC

VARIABLES
    goos,           \* runtime.GOOS of the build: "linux" or "windows"
    instance,       \* the package variable `instance`: [id, net], id 0 is nil
    mu,             \* the package mutex: 0 when free, else the holder
    pc,             \* each caller's position
    op,             \* the exported function each caller is in
    ret,            \* the *Network each caller's last call returned (0: nil)
    err,            \* whether each caller's last call returned an error
    nextRef,        \* number of Network values published so far
    calls,          \* number of calls issued so far
    stableRets,     \* history: references returned since the last invalidation
    discoveries,    \* history: number of discovery runs started
    failures,       \* history: number of discovery runs that failed
    refreshed,      \* history: whether RefreshConfig was ever called
    waited,         \* history: callers that stood at mu.Lock during a discovery
    handed,         \* history: references returned without error so far
    retired,        \* history: references returned before a completed refresh
    handedAtCall,   \* history: `handed` when the caller's RefreshConfig began
    retiredAtCall,  \* history: `retired` when the caller's call began
    cachedAtCall,   \* history: `instance.id` when the caller's call began
    invalidatedAt,  \* history: `nextRef` when the caller's RefreshConfig set instance = nil
    pingIn,         \* the arguments and environment of the current Ping call
    pingOut,        \* what that Ping call returned
    exIn,           \* the arguments of the current extractDotted call
    exOut,          \* what that extractDotted call returned
    findIn,         \* the arguments and file system of the current findCommand call
    findOut,        \* what that findCommand call returned
    discIn,         \* the environment of the current discovery
    discOut,        \* what that discovery returned and left in the cache
    dnsIn,          \* the argument and resolver of the current DNS call
    dnsOut          \* what that DNS call returned

cacheVars == <<instance, mu, pc, op, ret, err, nextRef, calls, stableRets,
               discoveries, failures, refreshed, waited, handed, retired,
               handedAtCall, retiredAtCall, cachedAtCall, invalidatedAt>>
pingVars == <<pingIn, pingOut>>
exVars == <<exIn, exOut>>
findVars == <<findIn, findOut>>
discVars == <<discIn, discOut>>
dnsVars == <<dnsIn, dnsOut>>
\* the variables of the calls that do not touch the cache
callVars == <<pingVars, exVars, findVars, discVars, dnsVars>>
vars == <<goos, cacheVars, callVars>>

(***************************************************************************)
(* Bounds of the model.                                                    *)
(***************************************************************************)
NumProcs == 3
MaxCalls == 3

Procs == 1..NumProcs
Platforms == {"linux", "windows"}

(***************************************************************************)
(* Text helpers: package strings of the Go standard library, as used by    *)
(* the parsers.  Indices are 1-based here and 0-based in the source.       *)
(***************************************************************************)
IsSpace(c) == c \in {" ", "\t", "\n", "\r"}

\* s[i:] of the source (i 0-based)
From(s, i) == SubSeq(s, i + 1, Len(s))

\* s[0:i] of the source
Upto(s, i) == SubSeq(s, 1, i)

HasPrefix(s, p) == Len(s) >= Len(p) /\ SubSeq(s, 1, Len(p)) = p

\* 1-based position of the first occurrence of sub in s, 0 when there is none
Index(s, sub) ==
    LET hits == {i \in 1..(Len(s) - Len(sub) + 1) : SubSeq(s, i, i + Len(sub) - 1) = sub}
    IN IF hits = {} THEN 0 ELSE CHOOSE i \in hits : \A j \in hits : i <= j

Contains(s, sub) == Index(s, sub) # 0

ContainsAny(s, chars) == \E i \in 1..Len(s) : s[i] \in chars

RECURSIVE TrimLeft(_, _)
TrimLeft(s, cutset) ==
    IF s # <<>> /\ s[1] \in cutset THEN TrimLeft(Tail(s), cutset) ELSE s

RECURSIVE TrimRight(_, _)
TrimRight(s, cutset) ==
    IF s # <<>> /\ s[Len(s)] \in cutset
    THEN TrimRight(SubSeq(s, 1, Len(s) - 1), cutset) ELSE s

Trim(s, cutset) == TrimRight(TrimLeft(s, cutset), cutset)

TrimSpace(s) == Trim(s, {" ", "\t", "\n", "\r"})

\* strings.Split(s, sep), sep not empty
RECURSIVE Split(_, _)
Split(s, sep) ==
    LET i == Index(s, sep)
    IN IF i = 0 THEN <<s>>
       ELSE <<SubSeq(s, 1, i - 1)>> \o Split(From(s, i - 1 + Len(sep)), sep)

\* strings.Fields(s): the maximal runs of non-space characters
RECURSIVE Fields(_)
Fields(s) ==
    LET t == TrimLeft(s, {" ", "\t", "\n", "\r"})
        ends == {i \in 1..Len(t) : IsSpace(t[i])}
        e == IF ends = {} THEN Len(t) + 1 ELSE CHOOSE i \in ends : \A j \in ends : i <= j
    IN IF t = <<>> THEN <<>>
       ELSE <<SubSeq(t, 1, e - 1)>> \o Fields(From(t, e - 1))

RECURSIVE Join(_, _)
Join(parts, sep) ==
    IF parts = <<>> THEN <<>>
    ELSE IF Len(parts) = 1 THEN parts[1]
    ELSE parts[1] \o sep \o Join(Tail(parts), sep)

Digits == {"0", "1", "2", "3", "4", "5", "6", "7", "8", "9"}

\* net.ParseIP restricted to dotted-quad IPv4: the text itself, or nil (<<>>)
ParseIP(s) ==
    LET q == Split(s, <<".">>)
    IN IF Len(q) = 4
          /\ \A i \in 1..4 : /\ Len(q[i]) \in 1..3
                             /\ \A j \in 1..Len(q[i]) : q[i][j] \in Digits
       THEN s ELSE <<>>

\* net.ParseMAC restricted to the six-group forms aa:bb:.. and aa-bb-..
HexDigits == Digits \cup {"a", "b", "c", "d", "e", "f", "A", "B", "C", "D", "E", "F"}
ParseMAC(s) ==
    IF Len(s) = 17
       /\ \A i \in 1..17 : IF i % 3 = 0 THEN s[i] = s[3] /\ s[3] \in {":", "-"}
                           ELSE s[i] \in HexDigits
    THEN s ELSE <<>>

(***************************************************************************)
(* Text constants of the source.                                           *)
(***************************************************************************)
T_Indent == <<" ", " ", " ">>
T_Comma == <<",">>
T_Colon == <<":">>
T_LF == <<"\n">>
T_CRLF == <<"\r", "\n">>
T_DomainNameServers == <<"d", "o", "m", "a", "i", "n", "-", "n", "a", "m", "e", "-", "s", "e", "r", "v", "e", "r", "s">>
T_EthernetAdapter == <<"E", "t", "h", "e", "r", "n", "e", "t", " ", "a", "d", "a", "p", "t", "e", "r", " ">>
T_DNSServers == <<"D", "N", "S", " ", "S", "e", "r", "v", "e", "r", "s">>
T_DNSSuffix == <<"C", "o", "n", "n", "e", "c", "t", "i", "o", "n", "-", "s", "p", "e", "c", "i", "f", "i", "c", " ", "D", "N", "S", " ", "S", "u", "f", "f", "i", "x">>
T_SubnetMask == <<"S", "u", "b", "n", "e", "t", " ", "M", "a", "s", "k">>
T_DefaultGateway == <<"D", "e", "f", "a", "u", "l", "t", " ", "G", "a", "t", "e", "w", "a", "y">>
T_LeaseDir == <<"/", "v", "a", "r", "/", "l", "i", "b", "/", "d", "h", "c", "p">>
T_LeasePrefix == <<"d", "h", "c", "l", "i", "e", "n", "t", ".">>
T_LeaseSuffix == <<".", "l", "e", "a", "s", "e", "s">>
\* the cutset of the sanitization; the backquote character is written BackQuote
BackQuote == "backquote"
ShellMeta == {";", "&", "|", BackQuote, "$", "(", ")", "\n"}

\* the fixed value column of extractDotted, and the lease offsets
ValueColumn == 39
DnsOffset == 26
SuffixOffset == 18
MinRouteFields == 7

(***************************************************************************)
(* extractDotted: the value of a "   label . . . : value" line of ipconfig *)
(* and of the continuation lines that follow it.                           *)
(***************************************************************************)
\* the loop of extractDotted over lines[i..]: st = [result, found]
RECURSIVE extractLoop(_, _, _, _)
extractLoop(lines, key, i, st) ==
    IF i > Len(lines) THEN st.result
    ELSE LET line == lines[i]
         IN IF ~st.found
            THEN IF HasPrefix(line, T_Indent \o key) /\ Len(line) > ValueColumn
                 THEN extractLoop(lines, key, i + 1,
                                  [result |-> From(line, ValueColumn), found |-> TRUE])
                 ELSE extractLoop(lines, key, i + 1, st)
            ELSE IF Len(line) > ValueColumn /\ TrimSpace(Upto(line, ValueColumn)) = <<>>
                 THEN extractLoop(lines, key, i + 1,
                                  [result |-> st.result \o T_Comma
                                                \o TrimSpace(From(line, ValueColumn)),
                                   found |-> TRUE])
                 ELSE st.result

\* variant: no element at all when nothing was collected
extractDottedNoSentinel(lines, key) ==
    LET r == Trim(extractLoop(lines, key, 1, [result |-> <<>>, found |-> FALSE]), {","})
    IN IF r = <<>> THEN <<>> ELSE Split(r, T_Comma)

\* variant: the joined text as one element
extractDottedUnsplit(lines, key) ==
    <<Trim(extractLoop(lines, key, 1, [result |-> <<>>, found |-> FALSE]), {","})>>

extractDotted(lines, key) ==
    Split(Trim(extractLoop(lines, key, 1, [result |-> <<>>, found |-> FALSE]), {","}),
          T_Comma)

(***************************************************************************)
(* The file system and PATH as exec.LookPath sees them: fs.exec is the set *)
(* of executable paths, fs.path[name] the PATH lookup of a bare name ("":  *)
(* not found).                                                             *)
(***************************************************************************)
ToolNames == {"ip", "ifconfig", "grep", "arp", "ipconfig", "ping"}

LookPath(file, fs) ==
    IF file \in ToolNames THEN fs.path[file]
    ELSE IF file \in fs.exec THEN file ELSE ""

\* variant: the PATH lookup of the name comes first
findCommandPathFirst(name, paths, fs) ==
    IF LookPath(name, fs) # "" THEN LookPath(name, fs)
    ELSE IF \E i \in 1..Len(paths) : LookPath(paths[i], fs) # ""
         THEN paths[CHOOSE i \in 1..Len(paths) : LookPath(paths[i], fs) # ""]
         ELSE ""

RECURSIVE findCommand(_, _, _)
findCommand(name, paths, fs) ==
    IF paths # <<>>
    THEN IF LookPath(paths[1], fs) # "" THEN paths[1]
         ELSE findCommand(name, Tail(paths), fs)
    ELSE LookPath(name, fs)

\* exec.Command(cmd, ...).Output(): the tool's outcome, or the start error
Output(cmd, fs, outcome) ==
    IF LookPath(cmd, fs) = "" THEN [err |-> TRUE, out |-> <<>>] ELSE outcome

IpPaths == <<"/bin/ip", "/sbin/ip", "/usr/bin/ip", "/usr/sbin/ip">>
IfconfigPaths == <<"/sbin/ifconfig", "/bin/ifconfig", "/usr/sbin/ifconfig", "/usr/bin/ifconfig">>
PingPaths == <<"/bin/ping", "/sbin/ping", "/usr/bin/ping", "/usr/sbin/ping">>

(***************************************************************************)
(* Network, and the discovery that fills it.  A discovery threads          *)
(* st = [net, err, done, cmds]: the Network being filled, the error        *)
(* returned ("" is nil), whether the function has returned, and the        *)
(* external commands issued so far.                                        *)
(***************************************************************************)
NetworkZero ==
    [LocalIP |-> <<>>, DNS |-> <<>>, SubnetMask |-> <<>>, DefaultGateway |-> <<>>,
     DefaultGatewayHardwareAddress |-> <<>>, InterfaceName |-> <<>>,
     HardwareAddress |-> <<>>, Suffix |-> <<>>, Interface |-> <<>>]

Start(net) == [net |-> net, err |-> "", done |-> FALSE, cmds |-> <<>>]
Fail(st, e) == [st EXCEPT !.err = e, !.done = TRUE]
Return(st) == [st EXCEPT !.done = TRUE]
Issue(st, tool, arg) == [st EXCEPT !.cmds = Append(@, [tool |-> tool, arg |-> arg])]

\* net.InterfaceByName: the first interface of that name, or <<>> (an error)
InterfaceByName(name, ifaces) ==
    LET hits == {i \in 1..Len(ifaces) : ifaces[i].Name = name}
    IN IF hits = {} THEN <<>>
       ELSE <<ifaces[CHOOSE i \in hits : \A j \in hits : i <= j]>>

\* getLinux, lines 96-113: ip route get 8.8.8.8
linuxRoute(st, env) ==
    LET ipCmd == findCommand("ip", IpPaths, env.fs)
        r == Output(ipCmd, env.fs, env.route)
        parts == Fields(r.out)
    IN IF ipCmd = "" THEN Fail(st, "ip command not found")
       ELSE IF r.err THEN Fail(Issue(st, "ip", <<>>), "ip route failed")
       ELSE IF Len(parts) < MinRouteFields
            THEN Fail(Issue(st, "ip", <<>>), "unexpected ip route output format")
       ELSE [Issue(st, "ip", <<>>) EXCEPT
                !.net.DefaultGateway = ParseIP(parts[3]),
                !.net.InterfaceName = parts[5],
                !.net.LocalIP = ParseIP(parts[7])]

\* getLinux, lines 115-122: the interface descriptor
linuxInterface(st, env) ==
    LET found == InterfaceByName(st.net.InterfaceName, env.ifaces)
    IN IF st.done THEN st
       ELSE IF found = <<>> THEN Fail(st, "no such network interface")
       ELSE [st EXCEPT !.net.HardwareAddress = found[1].HardwareAddr,
                       !.net.Interface = found[1].Name]

\* getLinux, lines 124-144: ifconfig <iface>
linuxIfconfig(st, env) ==
    LET located == findCommand("ifconfig", IfconfigPaths, env.fs)
        ifconfigCmd == IF located = "" THEN "ifconfig" ELSE located
        r == Output(ifconfigCmd, env.fs, env.ifconfig)
        lines == Split(r.out, T_LF)
        fields == IF Len(lines) > 1 THEN Fields(TrimSpace(lines[2])) ELSE <<>>
        issued == Issue(st, "ifconfig", st.net.InterfaceName)
    IN IF st.done THEN st
       ELSE IF r.err THEN Fail(issued, "ifconfig failed")
       ELSE IF Len(fields) > 4
            THEN [issued EXCEPT !.net.SubnetMask = ParseIP(fields[5])]
       ELSE issued

\* variant: every interface name is let through
linuxSanitizeNothing(st) == st

\* getLinux, lines 146-149: the sanitization of the interface name
linuxSanitize(st) ==
    IF st.done THEN st
    ELSE IF ContainsAny(st.net.InterfaceName, ShellMeta)
         THEN Fail(st, "invalid interface name")
    ELSE st

\* getLinux, lines 156-176: the loop over the lines grep printed;
\* acc = [dnslist, suffix]
RECURSIVE dnsItems(_, _)
dnsItems(list, dnslist) ==
    IF list = <<>> THEN dnslist
    ELSE IF ~Contains(dnslist, list[1])
         THEN dnsItems(Tail(list), dnslist \o list[1] \o T_Comma)
    ELSE dnsItems(Tail(list), dnslist)

RECURSIVE leaseLoop(_, _)
leaseLoop(lines, acc) ==
    IF lines = <<>> THEN acc
    ELSE LET line == lines[1]
             trimmedLine == TrimSpace(line)
             next ==
                 IF Contains(line, T_DomainNameServers)
                 THEN IF Len(trimmedLine) > DnsOffset
                      THEN [acc EXCEPT !.dnslist =
                               dnsItems(Split(TrimRight(From(trimmedLine, DnsOffset), {";"}),
                                              T_Comma), @)]
                      ELSE acc
                 ELSE IF Len(trimmedLine) > SuffixOffset
                      THEN [acc EXCEPT !.suffix =
                               TrimRight(From(trimmedLine, SuffixOffset), {";"})]
                      ELSE acc
         IN leaseLoop(Tail(lines), [next EXCEPT !.dnslist = TrimRight(@, {","})])

\* getLinux, lines 150-181: grep domain-name <lease file>
linuxLease(st, env) ==
    LET leasePath == T_LeaseDir \o <<"/">> \o T_LeasePrefix
                        \o st.net.InterfaceName \o T_LeaseSuffix
        r == Output("grep", env.fs, env.grep)
        acc == leaseLoop(Split(TrimSpace(r.out), T_LF),
                         [dnslist |-> <<>>, suffix |-> st.net.Suffix])
        issued == Issue(st, "grep", leasePath)
    IN IF st.done THEN st
       ELSE IF r.err THEN Fail(issued, "grep failed")
       ELSE [issued EXCEPT !.net.DNS = Split(acc.dnslist, T_Comma),
                           !.net.Suffix = acc.suffix]

\* getLinux, lines 182-200: arp -e <gateway>
linuxArp(st, env) ==
    LET r == Output("arp", env.fs, env.arp)
        lines == Split(r.out, T_LF)
        fields == IF Len(lines) >= 2 THEN Fields(lines[2]) ELSE <<>>
        issued == Issue(st, "arp", st.net.DefaultGateway)
    IN IF st.done THEN st
       ELSE IF st.net.DefaultGateway = <<>> THEN Return(st)
       ELSE IF r.err THEN Fail(issued, "arp failed")
       ELSE IF Len(fields) > 2
            THEN Return([issued EXCEPT
                            !.net.DefaultGatewayHardwareAddress = ParseMAC(fields[3])])
       ELSE Return(issued)

getLinux(net, env) ==
    linuxArp(linuxLease(linuxSanitize(linuxIfconfig(linuxInterface(
        linuxRoute(Start(net), env), env), env)), env), env)

\* getWindows, lines 253-266: the fields of the adapter section whose header
\* starts with the interface name
windowsSection(net, item, lines) ==
    LET suffixes == extractDotted(lines, T_DNSSuffix)
        subnetMasks == extractDotted(lines, T_SubnetMask)
    IN IF HasPrefix(item, net.InterfaceName)
       THEN [net EXCEPT
                !.DNS = extractDotted(lines, T_DNSServers),
                !.Suffix = IF net.Suffix = <<>> /\ Len(suffixes) > 0
                           THEN suffixes[1] ELSE @,
                !.SubnetMask = IF Len(subnetMasks) > 0
                               THEN ParseIP(subnetMasks[1]) ELSE @]
       ELSE net

\* getWindows, lines 268-278: every "Default Gateway" line of the section
RECURSIVE windowsGateway(_, _)
windowsGateway(net, lines) ==
    IF lines = <<>> THEN net
    ELSE LET parts == Split(lines[1], T_Colon)
             ip == IF Len(parts) = 2 THEN ParseIP(TrimSpace(parts[2])) ELSE <<>>
         IN IF Contains(lines[1], T_DefaultGateway) /\ ip # <<>>
            THEN windowsGateway([net EXCEPT !.DefaultGateway = ip], Tail(lines))
            ELSE windowsGateway(net, Tail(lines))

\* getWindows, lines 250-279: the loop over the adapter sections
RECURSIVE windowsItems(_, _)
windowsItems(net, items) ==
    IF items = <<>> THEN net
    ELSE LET lines == Split(items[1], T_CRLF)
         IN windowsItems(windowsGateway(windowsSection(net, items[1], lines), lines),
                         Tail(items))

\* getWindows, lines 245-298: ipconfig /all, then arp -a <gateway>
getWindows(st0, env) ==
    LET r == Output("ipconfig", env.fs, env.ipconfig)
        issued == Issue(st0, "ipconfig", <<>>)
        st == [issued EXCEPT !.net = windowsItems(@, Split(r.out, T_EthernetAdapter))]
        a == Output("arp", env.fs, env.arp)
        arped == Issue(st, "arp", st.net.DefaultGateway)
        chunks == Split(a.out, st.net.DefaultGateway)
        fields == IF Len(chunks) >= 3 THEN Fields(chunks[3]) ELSE <<>>
    IN IF r.err THEN Fail(issued, "ipconfig failed")
       ELSE IF st.net.DefaultGateway = <<>> THEN Return(st)
       ELSE IF a.err THEN Fail(arped, "arp failed")
       ELSE IF Len(fields) > 0
            THEN Return([arped EXCEPT
                            !.net.DefaultGatewayHardwareAddress = ParseMAC(fields[1])])
       ELSE Return(arped)

\* GetConfig, lines 67-78: the interface whose address list carries the local
\* IP; the last match wins.  network.Interface = &interf takes the address of
\* the loop variable: one variable per iteration from Go 1.22 on (the matched
\* interface), one for the whole loop before (the last one enumerated).
RECURSIVE windowsMatch(_, _, _)
windowsMatch(net, ifaces, env) ==
    IF ifaces = <<>> THEN net
    ELSE LET interf == ifaces[1]
             hit == /\ ~interf.addrsErr
                    /\ \E i \in 1..Len(interf.addrs) :
                           Contains(interf.addrs[i], net.LocalIP)
         IN windowsMatch(IF hit
                         THEN [net EXCEPT
                                  !.InterfaceName = interf.Name,
                                  !.HardwareAddress = interf.HardwareAddr,
                                  !.Interface = IF env.loopVarPerIteration
                                                THEN interf.Name
                                                ELSE env.ifaces[Len(env.ifaces)].Name]
                         ELSE net,
                         Tail(ifaces), env)

\* GetConfig, lines 47-89: the discovery GetConfig runs on a cache miss
Discover(os, env) ==
    IF os = "windows"
    THEN IF env.dialErr THEN Fail(Start(NetworkZero), "dial failed")
         ELSE IF ~env.udpAddr
              THEN Fail(Start(NetworkZero), "failed to get local UDP address")
         ELSE IF env.ifacesErr
              THEN Fail(Start(NetworkZero), "failed to get network interfaces")
         ELSE getWindows(Start(windowsMatch([NetworkZero EXCEPT !.LocalIP = env.localIP],
                                            env.ifaces, env)), env)
    ELSE getLinux(NetworkZero, env)

(***************************************************************************)
(* Environments: what the operating system and the external tools answer.  *)
(* The X_ texts are sample tool outputs in the tools' usual layout.        *)
(***************************************************************************)
X_eth0 ==
    <<"e", "t", "h", "0">>
X_tun0 ==
    <<"t", "u", "n", "0">>
X_Ethernet ==
    <<"E", "t", "h", "e", "r", "n", "e", "t">>
X_MacA ==
    <<"a", "a", ":", "b", "b", ":", "c", "c", ":", "d", "d", ":", "e", "e",
      ":", "0", "5">>
X_AddrLan ==
    <<"1", "9", "2", ".", "1", "6", "8", ".", "1", ".", "5", "/", "2", "4">>
X_AddrTun ==
    <<"1", "0", ".", "0", ".", "0", ".", "2", "/", "3", "2">>
X_IpLan ==
    <<"1", "9", "2", ".", "1", "6", "8", ".", "1", ".", "5">>
X_IpOther ==
    <<"1", "7", "2", ".", "1", "6", ".", "0", ".", "9">>
X_RouteOk ==
    <<"8", ".", "8", ".", "8", ".", "8", " ", "v", "i", "a", " ", "1", "9",
      "2", ".", "1", "6", "8", ".", "1", ".", "1", " ", "d", "e", "v", " ",
      "e", "t", "h", "0", " ", "s", "r", "c", " ", "1", "9", "2", ".", "1",
      "6", "8", ".", "1", ".", "5", " ", "u", "i", "d", " ", "0", "\n">>
X_RouteTun ==
    <<"8", ".", "8", ".", "8", ".", "8", " ", "v", "i", "a", " ", "1", "0",
      ".", "0", ".", "0", ".", "1", " ", "d", "e", "v", " ", "t", "u", "n",
      "0", " ", "s", "r", "c", " ", "1", "0", ".", "0", ".", "0", ".", "2",
      " ", "u", "i", "d", " ", "0", "\n">>
X_RouteShort ==
    <<"8", ".", "8", ".", "8", ".", "8", " ", "d", "e", "v", " ", "e", "t",
      "h", "0", "\n">>
X_IfconfigOut ==
    <<"e", "t", "h", "0", ":", " ", "f", "l", "a", "g", "s", "=", "4", "1",
      "6", "3", " ", "m", "t", "u", " ", "1", "5", "0", "0", "\n", " ", " ",
      "i", "n", "e", "t", " ", "1", "9", "2", ".", "1", "6", "8", ".", "1",
      ".", "5", " ", "n", "e", "t", "m", "a", "s", "k", " ", "2", "5", "5",
      ".", "2", "5", "5", ".", "2", "5", "5", ".", "0", " ", "b", "r", "o",
      "a", "d", "c", "a", "s", "t", " ", "1", "9", "2", ".", "1", "6", "8",
      ".", "1", ".", "2", "5", "5", "\n">>
X_GrepOut ==
    <<" ", " ", "o", "p", "t", "i", "o", "n", " ", "d", "o", "m", "a", "i",
      "n", "-", "n", "a", "m", "e", "-", "s", "e", "r", "v", "e", "r", "s",
      " ", "8", ".", "8", ".", "8", ".", "8", ",", "8", ".", "8", ".", "4",
      ".", "4", ";", "\n", " ", " ", "o", "p", "t", "i", "o", "n", " ", "d",
      "o", "m", "a", "i", "n", "-", "n", "a", "m", "e", " ", "\"", "l", "a",
      "n", "\"", ";", "\n">>
X_ArpOut ==
    <<"A", "d", "d", "r", "e", "s", "s", " ", "H", "W", "t", "y", "p", "e",
      " ", "H", "W", "a", "d", "d", "r", "e", "s", "s", " ", "F", "l", "a",
      "g", "s", " ", "I", "f", "a", "c", "e", "\n", "1", "9", "2", ".", "1",
      "6", "8", ".", "1", ".", "1", " ", "e", "t", "h", "e", "r", " ", "a",
      "a", ":", "b", "b", ":", "c", "c", ":", "d", "d", ":", "e", "e", ":",
      "0", "1", " ", "C", " ", "e", "t", "h", "0", "\n">>
X_Ipconfig ==
    <<"W", "i", "n", "d", "o", "w", "s", " ", "I", "P", " ", "C", "o", "n",
      "f", "i", "g", "u", "r", "a", "t", "i", "o", "n", "\r", "\n", "\r",
      "\n", "E", "t", "h", "e", "r", "n", "e", "t", " ", "a", "d", "a", "p",
      "t", "e", "r", " ", "E", "t", "h", "e", "r", "n", "e", "t", ":", "\r",
      "\n", "\r", "\n", " ", " ", " ", "C", "o", "n", "n", "e", "c", "t",
      "i", "o", "n", "-", "s", "p", "e", "c", "i", "f", "i", "c", " ", "D",
      "N", "S", " ", "S", "u", "f", "f", "i", "x", " ", " ", ".", " ", ":",
      " ", "l", "a", "n", "\r", "\n", " ", " ", " ", "S", "u", "b", "n", "e",
      "t", " ", "M", "a", "s", "k", " ", ".", " ", ".", " ", ".", " ", ".",
      " ", ".", " ", ".", " ", ".", " ", ".", " ", ".", " ", ".", " ", ".",
      " ", ":", " ", "2", "5", "5", ".", "2", "5", "5", ".", "2", "5", "5",
      ".", "0", "\r", "\n", " ", " ", " ", "D", "e", "f", "a", "u", "l", "t",
      " ", "G", "a", "t", "e", "w", "a", "y", " ", ".", " ", ".", " ", ".",
      " ", ".", " ", ".", " ", ".", " ", ".", " ", ".", " ", ".", " ", ":",
      " ", "1", "9", "2", ".", "1", "6", "8", ".", "1", ".", "1", "\r", "\n",
      " ", " ", " ", "D", "N", "S", " ", "S", "e", "r", "v", "e", "r", "s",
      " ", ".", " ", ".", " ", ".", " ", ".", " ", ".", " ", ".", " ", ".",
      " ", ".", " ", ".", " ", ".", " ", ".", " ", ":", " ", "8", ".", "8",
      ".", "8", ".", "8", "\r", "\n", " ", " ", " ", " ", " ", " ", " ", " ",
      " ", " ", " ", " ", " ", " ", " ", " ", " ", " ", " ", " ", " ", " ",
      " ", " ", " ", " ", " ", " ", " ", " ", " ", " ", " ", " ", " ", " ",
      " ", " ", " ", "8", ".", "8", ".", "4", ".", "4", "\r", "\n">>
X_ArpWin ==
    <<" ", " ", "1", "9", "2", ".", "1", "6", "8", ".", "1", ".", "1", " ",
      " ", "a", "a", "-", "b", "b", "-", "c", "c", "-", "d", "d", "-", "e",
      "e", "-", "0", "1", " ", " ", "d", "y", "n", "a", "m", "i", "c", "\r",
      "\n">>

X_BadName ==
    <<"e", "t", "h", "0", ";", "x">>
X_RouteBad ==
    <<"8", ".", "8", ".", "8", ".", "8", " ", "v", "i", "a", " ", "1", "9",
      "2", ".", "1", "6", "8", ".", "1", ".", "1", " ", "d", "e", "v", " ",
      "e", "t", "h", "0", ";", "x", " ", "s", "r", "c", " ", "1", "9", "2",
      ".", "1", "6", "8", ".", "1", ".", "5", " ", "u", "i", "d", " ", "0",
      "\n">>

AllTools == [exec |-> {"/sbin/ip", "/sbin/ifconfig", "/bin/ping"},
             path |-> [t \in ToolNames |-> "/usr/bin/" \o t]]
NoIpTool == [exec |-> {"/sbin/ifconfig"},
             path |-> [t \in ToolNames |-> IF t = "ip" THEN "" ELSE "/usr/bin/" \o t]]

Ifaces ==
    <<[Name |-> X_eth0, HardwareAddr |-> X_MacA, addrs |-> <<X_AddrLan>>, addrsErr |-> FALSE],
      [Name |-> X_tun0, HardwareAddr |-> <<>>, addrs |-> <<X_AddrTun>>, addrsErr |-> FALSE]>>
IfacesWindows ==
    <<[Name |-> X_Ethernet, HardwareAddr |-> X_MacA, addrs |-> <<X_AddrLan>>,
       addrsErr |-> FALSE]>>

\* the interfaces of the host, with or without one of the unusual name
IfacesChoices ==
    {Ifaces,
     Ifaces \o <<[Name |-> X_BadName, HardwareAddr |-> X_MacA, addrs |-> <<X_AddrLan>>,
                  addrsErr |-> FALSE]>>}

Ran(text) == [err |-> FALSE, out |-> text]
Exited == [err |-> TRUE, out |-> <<>>]

\* a Linux host on which every step succeeds
LinuxOk ==
    [fs |-> AllTools, route |-> Ran(X_RouteOk), ifaces |-> Ifaces,
     ifconfig |-> Ran(X_IfconfigOut), grep |-> Ran(X_GrepOut), arp |-> Ran(X_ArpOut),
     dialErr |-> FALSE, udpAddr |-> TRUE, ifacesErr |-> FALSE, localIP |-> <<>>,
     ipconfig |-> Exited, loopVarPerIteration |-> TRUE]
\* a Windows host on which every step succeeds
WindowsOk ==
    [fs |-> AllTools, route |-> Exited, ifaces |-> IfacesWindows,
     ifconfig |-> Exited, grep |-> Exited, arp |-> Ran(X_ArpWin),
     dialErr |-> FALSE, udpAddr |-> TRUE, ifacesErr |-> FALSE, localIP |-> X_IpLan,
     ipconfig |-> Ran(X_Ipconfig), loopVarPerIteration |-> TRUE]

\* the environments the cache is explored under: success, a failing essential
\* step, and an interface without the expected identity
CacheEnvs(os) ==
    IF os = "windows"
    THEN {WindowsOk,
          [WindowsOk EXCEPT !.dialErr = TRUE],
          [WindowsOk EXCEPT !.localIP = X_IpOther]}
    ELSE {LinuxOk,
          [LinuxOk EXCEPT !.fs = NoIpTool],
          [LinuxOk EXCEPT !.route = Ran(X_RouteShort)],
          [LinuxOk EXCEPT !.route = Ran(X_RouteTun)],
          [LinuxOk EXCEPT !.route = Exited],
          [LinuxOk EXCEPT !.ifaces = <<>>],
          [LinuxOk EXCEPT !.route = Ran(X_RouteBad),
                          !.ifaces = CHOOSE c \in IfacesChoices : c # Ifaces]}

CacheOutcomes == [os \in Platforms |-> {Discover(os, e) : e \in CacheEnvs(os)}]

(***************************************************************************)
(* The configuration cache: GetConfig and RefreshConfig.                   *)
(***************************************************************************)
NilInstance == [id |-> 0, net |-> NetworkZero]

\* variant: a lock that excludes nobody
LockNeverHeld(m) == TRUE

\* mu.Lock() returns only when no caller holds the mutex
LockFree(m) == m = 0

\* line 44: instance != nil
CacheHit(inst) == inst.id # 0

\* variant: RefreshConfig without the invalidation
InvalidateNothing(inst) == inst

\* line 34: instance = nil
Invalidate(inst) == NilInstance

\* variant: GetConfig without the assignment to instance
PublishNothing(inst, id, net) == inst

\* line 90: instance = &network, a Network allocated by this call
Publish(inst, id, net) == [id |-> id, net |-> net]

\* variant: no discovery counts as failed
FailedNever(o) == FALSE

\* lines 84-87: err != nil, GetConfig returns nil and the error
Failed(o) == o.err # ""

\* lines 45 and 91: the pointer GetConfig returns
Returned(inst) == inst.id

\* a caller enters an exported function
Enter(p, f, at) ==
    /\ pc[p] = "idle"
    /\ calls < MaxCalls
    /\ calls' = calls + 1
    /\ pc' = [pc EXCEPT ![p] = at]
    /\ op' = [op EXCEPT ![p] = f]
    /\ ret' = [ret EXCEPT ![p] = 0]
    /\ err' = [err EXCEPT ![p] = FALSE]
    /\ retiredAtCall' = [retiredAtCall EXCEPT ![p] = retired]
    /\ cachedAtCall' = [cachedAtCall EXCEPT ![p] = instance.id]
    /\ handedAtCall' = [handedAtCall EXCEPT ![p] = IF f = "RefreshConfig" THEN handed ELSE {}]
    /\ refreshed' = (refreshed \/ f = "RefreshConfig")
    /\ UNCHANGED <<goos, instance, mu, nextRef, stableRets, discoveries, failures,
                   waited, handed, retired, invalidatedAt, callVars>>

CallGetConfig(p) == Enter(p, "GetConfig", "getLock")

CallRefreshConfig(p) == Enter(p, "RefreshConfig", "refLock")

\* RefreshConfig, lines 33-36: lock, instance = nil, unlock; then GetConfig
RefreshInvalidate(p) ==
    /\ pc[p] = "refLock"
    /\ LockFree(mu)
    /\ instance' = Invalidate(instance)
    /\ stableRets' = IF instance'.id = 0 THEN <<>> ELSE stableRets
    /\ pc' = [pc EXCEPT ![p] = "getLock"]
    /\ invalidatedAt' = [invalidatedAt EXCEPT ![p] = nextRef]
    /\ UNCHANGED <<goos, mu, op, ret, err, nextRef, calls, discoveries, failures,
                   refreshed, waited, handed, retired, handedAtCall, retiredAtCall,
                   cachedAtCall, callVars>>

\* GetConfig, line 41: mu.Lock()
GetLock(p) ==
    /\ pc[p] = "getLock"
    /\ LockFree(mu)
    /\ mu' = p
    /\ pc' = [pc EXCEPT ![p] = "getBody"]
    /\ UNCHANGED <<goos, instance, op, ret, err, nextRef, calls, stableRets,
                   discoveries, failures, refreshed, waited, handed, retired,
                   handedAtCall, retiredAtCall, cachedAtCall, invalidatedAt, callVars>>

\* the return statement of GetConfig and its deferred mu.Unlock(); a
\* RefreshConfig call returns what its GetConfig returned
Finish(p, r, e) ==
    /\ pc' = [pc EXCEPT ![p] = "idle"]
    /\ ret' = [ret EXCEPT ![p] = r]
    /\ err' = [err EXCEPT ![p] = e]
    /\ mu' = 0
    /\ stableRets' = IF e THEN stableRets ELSE Append(stableRets, r)
    /\ handed' = IF e THEN handed ELSE handed \cup {r}
    /\ retired' = IF op[p] = "RefreshConfig" THEN retired \cup handedAtCall[p]
                  ELSE retired
    /\ invalidatedAt' = [invalidatedAt EXCEPT ![p] = 0]
    /\ UNCHANGED <<goos, op, calls, refreshed, handedAtCall, retiredAtCall,
                   cachedAtCall, callVars>>

\* GetConfig, lines 44-46: the cached instance is returned
GetCached(p) ==
    /\ pc[p] = "getBody"
    /\ CacheHit(instance)
    /\ Finish(p, Returned(instance), FALSE)
    /\ UNCHANGED <<instance, nextRef, discoveries, failures, waited>>

\* GetConfig, lines 47-91: discovery; on success the new Network is published
GetDiscover(p) ==
    /\ pc[p] = "getBody"
    /\ ~CacheHit(instance)
    /\ discoveries' = discoveries + 1
    /\ waited' = waited \cup {q \in Procs : pc[q] = "getLock"}
    /\ \E o \in CacheOutcomes[goos] :
          IF Failed(o)
          THEN /\ Finish(p, 0, TRUE)
               /\ failures' = failures + 1
               /\ UNCHANGED <<instance, nextRef>>
          ELSE /\ nextRef' = nextRef + 1
               /\ instance' = Publish(instance, nextRef', o.net)
               /\ Finish(p, nextRef', FALSE)
               /\ UNCHANGED failures

\* the cache before any call
CacheAtRest ==
    /\ instance = NilInstance
    /\ mu = 0
    /\ pc = [p \in Procs |-> "idle"]
    /\ op = [p \in Procs |-> "none"]
    /\ ret = [p \in Procs |-> 0]
    /\ err = [p \in Procs |-> FALSE]
    /\ nextRef = 0
    /\ calls = 0
    /\ stableRets = <<>>
    /\ discoveries = 0
    /\ failures = 0
    /\ refreshed = FALSE
    /\ waited = {}
    /\ handed = {}
    /\ retired = {}
    /\ handedAtCall = [p \in Procs |-> {}]
    /\ retiredAtCall = [p \in Procs |-> {}]
    /\ cachedAtCall = [p \in Procs |-> 0]
    /\ invalidatedAt = [p \in Procs |-> 0]

Init ==
    /\ goos \in Platforms
    /\ CacheAtRest
    /\ pingIn = <<>>
    /\ pingOut = <<>>
    /\ exIn = <<>>
    /\ exOut = <<>>
    /\ findIn = <<>>
    /\ findOut = <<>>
    /\ discIn = <<>>
    /\ discOut = <<>>
    /\ dnsIn = <<>>
    /\ dnsOut = <<>>

Next ==
    \E p \in Procs :
        \/ CallGetConfig(p)
        \/ CallRefreshConfig(p)
        \/ RefreshInvalidate(p)
        \/ GetLock(p)
        \/ GetCached(p)
        \/ GetDiscover(p)

Spec == Init /\ [][Next]_vars

(***************************************************************************)
(* The cache when an external command may never exit.  exec.Command(...)   *)
(* .Output() returns when the process has exited; the discovery passes no  *)
(* context and sets no timer, so a caller whose command does not exit      *)
(* stays in the call, holding mu.                                          *)
(***************************************************************************)
\* GetConfig, lines 47-88: the discovery starts a command that never exits
CommandHangs(p) ==
    /\ pc[p] = "getBody"
    /\ ~CacheHit(instance)
    /\ pc' = [pc EXCEPT ![p] = "inCommand"]
    /\ discoveries' = discoveries + 1
    /\ waited' = waited \cup {q \in Procs : pc[q] = "getLock"}
    /\ UNCHANGED <<goos, instance, mu, op, ret, err, nextRef, calls, stableRets,
                   failures, refreshed, handed, retired, handedAtCall, retiredAtCall,
                   cachedAtCall, invalidatedAt, callVars>>

NextWait == Next \/ \E p \in Procs : CommandHangs(p)

\* a caller that can take a step of its call takes it
Scheduled ==
    \A p \in Procs :
        WF_vars(RefreshInvalidate(p) \/ GetLock(p) \/ GetCached(p) \/ GetDiscover(p))

SpecWait == Init /\ [][NextWait]_vars /\ Scheduled

(***************************************************************************)
(* The regular expressions of the ping parsers.  A pattern is a sequence   *)
(* of elements: a literal, \d+ (Num) or \d+(?:\.\d+)? (Dec); Num and Dec   *)
(* are capture groups.  Matching is leftmost, greedy, with backtracking.   *)
(***************************************************************************)
Lit(t) == [t |-> "lit", v |-> t]
Num == [t |-> "num", v |-> <<>>]
Dec == [t |-> "dec", v |-> <<>>]

RECURSIVE DigitRun(_, _)
DigitRun(s, i) ==
    IF i <= Len(s) /\ s[i] \in Digits THEN 1 + DigitRun(s, i + 1) ELSE 0

\* the positions n, n-1, .., 1 added to base
Down(base, n) == [k \in 1..n |-> base + n + 1 - k]

\* the ends of \d+(?:\.\d+)? at i with k integer digits: the fractions, longest
\* first, then none
DecEnds(s, i, k) ==
    (IF i + k <= Len(s) /\ s[i + k] = "."
     THEN Down(i + k + 1, DigitRun(s, i + k + 1)) ELSE <<>>) \o <<i + k>>

RECURSIVE DecAll(_, _, _)
DecAll(s, i, k) == IF k = 0 THEN <<>> ELSE DecEnds(s, i, k) \o DecAll(s, i, k - 1)

\* where an element that starts at i may end (the next position), in the order
\* the engine tries them
Ends(s, i, el) ==
    IF el.t = "lit"
    THEN IF i + Len(el.v) - 1 <= Len(s) /\ SubSeq(s, i, i + Len(el.v) - 1) = el.v
         THEN <<i + Len(el.v)>> ELSE <<>>
    ELSE IF el.t = "num" THEN Down(i, DigitRun(s, i))
    ELSE DecAll(s, i, DigitRun(s, i))

\* the capture groups of a match of pat[k..] at i, as <<groups>>; <<>>: none
RECURSIVE MatchSeq(_, _, _, _)
RECURSIVE TryEnds(_, _, _, _, _)
MatchSeq(s, i, pat, k) ==
    IF k > Len(pat) THEN << <<>> >> ELSE TryEnds(s, i, pat, k, Ends(s, i, pat[k]))

TryEnds(s, i, pat, k, ends) ==
    IF ends = <<>> THEN <<>>
    ELSE LET rest == MatchSeq(s, ends[1], pat, k + 1)
             group == IF pat[k].t = "lit" THEN <<>> ELSE <<SubSeq(s, i, ends[1] - 1)>>
         IN IF rest # <<>> THEN <<group \o rest[1]>>
            ELSE TryEnds(s, i, pat, k, Tail(ends))

RECURSIVE FindFrom(_, _, _)
FindFrom(s, pat, i) ==
    IF i > Len(s) + 1 THEN <<>>
    ELSE LET m == MatchSeq(s, i, pat, 1)
         IN IF m # <<>> THEN m[1] ELSE FindFrom(s, pat, i + 1)

\* re.FindStringSubmatch(s)[1:], or <<>> when s has no match
FindStringSubmatch(s, pat) == FindFrom(s, pat, 1)

DigitValue(c) ==
    CASE c = "0" -> 0 [] c = "1" -> 1 [] c = "2" -> 2 [] c = "3" -> 3 [] c = "4" -> 4
      [] c = "5" -> 5 [] c = "6" -> 6 [] c = "7" -> 7 [] c = "8" -> 8 [] c = "9" -> 9

\* strconv.Atoi of a digit string
RECURSIVE Atoi(_)
Atoi(t) == IF t = <<>> THEN 0 ELSE 10 * Atoi(SubSeq(t, 1, Len(t) - 1)) + DigitValue(t[Len(t)])

RECURSIVE Pow10(_)
Pow10(n) == IF n = 0 THEN 1 ELSE 10 * Pow10(n - 1)

\* strconv.ParseFloat of digits[.digits], as the fraction n/d
ParseFloat(t) ==
    LET dot == Index(t, <<".">>)
    IN IF dot = 0 THEN [n |-> Atoi(t), d |-> 1]
       ELSE [n |-> Atoi(SubSeq(t, 1, dot - 1) \o From(t, dot)),
             d |-> Pow10(Len(t) - dot)]

\* strconv.Itoa of a natural number
RECURSIVE Itoa(_)
Itoa(n) ==
    LET c == <<"0", "1", "2", "3", "4", "5", "6", "7", "8", "9">>[(n % 10) + 1]
    IN IF n < 10 THEN <<c>> ELSE Itoa(n \div 10) \o <<c>>

T_PacketsTransmitted ==
    <<"p", "a", "c", "k", "e", "t", "s", " ", "t", "r", "a", "n", "s", "m",
      "i", "t", "t", "e", "d">>
T_ReTransmitted ==
    <<" ", "p", "a", "c", "k", "e", "t", "s", " ", "t", "r", "a", "n", "s",
      "m", "i", "t", "t", "e", "d", ",", " ">>
T_ReReceived ==
    <<" ", "r", "e", "c", "e", "i", "v", "e", "d">>
T_RePacketLoss ==
    <<"%", " ", "p", "a", "c", "k", "e", "t", " ", "l", "o", "s", "s">>
T_RttMinAvgMax ==
    <<"r", "t", "t", " ", "m", "i", "n", "/", "a", "v", "g", "/", "m", "a",
      "x">>
T_Packets ==
    <<"P", "a", "c", "k", "e", "t", "s", ":">>
T_ReSent ==
    <<"S", "e", "n", "t", " ", "=", " ">>
T_ReWinReceived ==
    <<",", " ", "R", "e", "c", "e", "i", "v", "e", "d", " ", "=", " ">>
T_ReLost ==
    <<",", " ", "L", "o", "s", "t", " ", "=", " ">>
T_Minimum ==
    <<"M", "i", "n", "i", "m", "u", "m">>
T_Maximum ==
    <<"M", "a", "x", "i", "m", "u", "m">>
T_ReMinimum ==
    <<"M", "i", "n", "i", "m", "u", "m", " ", "=", " ">>
T_ReMaximum ==
    <<"m", "s", ",", " ", "M", "a", "x", "i", "m", "u", "m", " ", "=", " ">>
T_ReAverage ==
    <<"m", "s", ",", " ", "A", "v", "e", "r", "a", "g", "e", " ", "=", " ">>
T_ReMs ==
    <<"m", "s">>

ReLinuxStats == <<Num, Lit(T_ReTransmitted), Num, Lit(T_ReReceived)>>
ReLinuxLoss == <<Dec, Lit(T_RePacketLoss)>>
ReLinuxRtt == <<Dec, Lit(<<"/">>), Dec, Lit(<<"/">>), Dec, Lit(<<"/">>), Dec>>
ReWindowsStats == <<Lit(T_ReSent), Num, Lit(T_ReWinReceived), Num, Lit(T_ReLost), Num>>
ReWindowsRtt ==
    <<Lit(T_ReMinimum), Num, Lit(T_ReMaximum), Num, Lit(T_ReAverage), Num, Lit(T_ReMs)>>

(***************************************************************************)
(* Ping.  A time.Duration is counted in microseconds.                      *)
(***************************************************************************)
Millisecond == 1000
Second == 1000000
DefaultCount == 4
DefaultTimeoutSeconds == 4
DefaultSizeWindows == 32
DefaultSizeOther == 56
FallbackSize == 32

NilOptions == [nil |-> TRUE, Count |-> 0, Timeout |-> 0, Size |-> 0]
Zero == [n |-> 0, d |-> 1]
ResultZero ==
    [nil |-> FALSE, Host |-> "", Sent |-> 0, Received |-> 0, Lost |-> 0,
     PacketLoss |-> Zero, MinRTT |-> 0, MaxRTT |-> 0, AvgRTT |-> 0, StdDevRTT |-> 0,
     Success |-> FALSE, ErrorMessage |-> ""]
NilResult == [ResultZero EXCEPT !.nil = TRUE]

\* lines 35-46
DefaultPingOptions(os) ==
    [nil |-> FALSE, Count |-> DefaultCount, Timeout |-> DefaultTimeoutSeconds * Second,
     Size |-> IF os = "windows" THEN DefaultSizeWindows ELSE DefaultSizeOther]

\* lines 58-67: the validation of the options
ValidOptions(o) ==
    [o EXCEPT !.Count = IF @ <= 0 THEN DefaultCount ELSE @,
              !.Timeout = IF @ <= 0 THEN DefaultTimeoutSeconds * Second ELSE @,
              !.Size = IF @ <= 0 THEN FallbackSize ELSE @]

\* variant: the empty host is let through
HostNeverEmpty(host) == FALSE

\* line 50: host == ""
HostEmpty(host) == host = ""

\* variant: success whatever was received
SuccessAlways(received) == TRUE

\* line 111: result.Received > 0
SuccessOf(received) == received > 0

\* lines 117-128: the ping invocation on Windows
pingWindows(host, o, env) ==
    [args |-> <<"-n", Itoa(o.Count), "-w", Itoa(o.Timeout \div Millisecond),
                "-l", Itoa(o.Size), host>>,
     run |-> Output("ping", env.fs, env.tool)]

\* lines 130-147: the ping invocation elsewhere
pingLinux(host, o, env) ==
    LET located == findCommand("ping", PingPaths, env.fs)
        pingCmd == IF located = "" THEN "ping" ELSE located
    IN [args |-> <<"-c", Itoa(o.Count), "-W", Itoa(o.Timeout \div Second),
                   "-s", Itoa(o.Size), host>>,
        run |-> Output(pingCmd, env.fs, env.tool)]

\* time.Duration(f * float64(time.Millisecond)) of a parsed decimal
DurationOfMs(f) == (f.n * Millisecond) \div f.d

\* parseWindowsPingOutput, lines 154-186: one line
windowsLine(line, r) ==
    LET st == FindStringSubmatch(line, ReWindowsStats)
        r1 == IF Contains(line, T_Packets) /\ st # <<>>
              THEN [r EXCEPT !.Sent = Atoi(st[1]), !.Received = Atoi(st[2]),
                             !.Lost = Atoi(st[3])]
              ELSE r
        rt == FindStringSubmatch(line, ReWindowsRtt)
    IN IF Contains(line, T_Minimum) /\ Contains(line, T_Maximum) /\ rt # <<>>
       THEN [r1 EXCEPT !.MinRTT = Atoi(rt[1]) * Millisecond,
                       !.MaxRTT = Atoi(rt[2]) * Millisecond,
                       !.AvgRTT = Atoi(rt[3]) * Millisecond]
       ELSE r1

RECURSIVE windowsLines(_, _)
windowsLines(lines, r) ==
    IF lines = <<>> THEN r
    ELSE windowsLines(Tail(lines), windowsLine(TrimSpace(lines[1]), r))

\* parseWindowsPingOutput, lines 149-187
parseWindowsPingOutput(output, r) == windowsLines(Split(output, T_LF), r)

\* parseLinuxPingOutput, lines 193-234: one line
linuxLine(line, r) ==
    LET st == FindStringSubmatch(line, ReLinuxStats)
        pl == FindStringSubmatch(line, ReLinuxLoss)
        r1 == IF st # <<>>
              THEN [r EXCEPT !.Sent = Atoi(st[1]), !.Received = Atoi(st[2])] ELSE r
        r2 == IF pl # <<>> THEN [r1 EXCEPT !.PacketLoss = ParseFloat(pl[1])] ELSE r1
        r3 == IF Contains(line, T_PacketsTransmitted) THEN r2 ELSE r
        rt == FindStringSubmatch(line, ReLinuxRtt)
    IN IF Contains(line, T_RttMinAvgMax) /\ rt # <<>>
       THEN [r3 EXCEPT !.MinRTT = DurationOfMs(ParseFloat(rt[1])),
                       !.AvgRTT = DurationOfMs(ParseFloat(rt[2])),
                       !.MaxRTT = DurationOfMs(ParseFloat(rt[3])),
                       !.StdDevRTT = DurationOfMs(ParseFloat(rt[4]))]
       ELSE r3

RECURSIVE linuxLines(_, _)
linuxLines(lines, r) ==
    IF lines = <<>> THEN r
    ELSE linuxLines(Tail(lines), linuxLine(TrimSpace(lines[1]), r))

\* parseLinuxPingOutput, lines 189-240
parseLinuxPingOutput(output, r) ==
    LET p == linuxLines(Split(output, T_LF), r)
    IN IF p.Sent > 0 /\ p.Lost = 0 THEN [p EXCEPT !.Lost = p.Sent - p.Received] ELSE p

parsePingOutput(os, output, r) ==
    IF os = "windows" THEN parseWindowsPingOutput(output, r)
    ELSE parseLinuxPingOutput(output, r)

\* lines 107-112: the packet-loss calculation
Calculated(r) ==
    IF r.Sent > 0
    THEN [r EXCEPT !.Lost = r.Sent - r.Received,
                   !.PacketLoss = [n |-> (r.Sent - r.Received) * 100, d |-> r.Sent],
                   !.Success = SuccessOf(r.Received)]
    ELSE r

\* Ping, lines 49-115.  options is the struct the caller's pointer refers to
\* (NilOptions: a nil pointer); the answer carries the struct as Ping left it
Ping(os, host, options, env) ==
    LET defaulted == IF options.nil THEN DefaultPingOptions(os) ELSE options
        o == ValidOptions(defaulted)
        cmd == IF os = "windows" THEN pingWindows(host, o, env)
               ELSE pingLinux(host, o, env)
        output == cmd.run.out
        result == [ResultZero EXCEPT !.Host = host]
        partial == IF Len(output) > 0 THEN parsePingOutput(os, output, result)
                   ELSE result
    IN IF HostEmpty(host)
       THEN [err |-> "host cannot be empty", result |-> NilResult,
             options |-> options, used |-> NilOptions, args |-> <<>>]
       ELSE IF cmd.run.err /\ (partial.Sent = 0 \/ partial.Received = 0)
            THEN [err |-> "",
                  result |-> [partial EXCEPT !.Success = FALSE,
                                             !.ErrorMessage = "failed to ping"],
                  options |-> IF options.nil THEN options ELSE o,
                  used |-> o, args |-> cmd.args]
       ELSE [err |-> "",
             result |-> Calculated(parsePingOutput(os, output,
                                       IF cmd.run.err THEN partial ELSE result)),
             options |-> IF options.nil THEN options ELSE o,
             used |-> o, args |-> cmd.args]

(***************************************************************************)
(* The inputs of Ping: hosts, options, and what the ping tool printed.     *)
(***************************************************************************)
MaxPackets == 2

X_PingHeader ==
    <<"-", "-", "-", " ", "p", "i", "n", "g", " ", "s", "t", "a", "t", "i",
      "s", "t", "i", "c", "s", " ", "-", "-", "-", "\n">>
X_PingTime ==
    <<",", " ", "t", "i", "m", "e", " ", "3", "0", "0", "3", "m", "s", "\n">>
X_PingRtt ==
    <<"r", "t", "t", " ", "m", "i", "n", "/", "a", "v", "g", "/", "m", "a",
      "x", "/", "m", "d", "e", "v", " ", "=", " ", "0", ".", "0", "3", "5",
      "/", "0", ".", "0", "4", "8", "/", "0", ".", "0", "6", "2", "/", "0",
      ".", "0", "1", "1", " ", "m", "s", "\n">>
X_PacketsReceived ==
    <<" ", "p", "a", "c", "k", "e", "t", "s", " ", "r", "e", "c", "e", "i",
      "v", "e", "d", ",", " ">>
X_Received ==
    <<" ", "r", "e", "c", "e", "i", "v", "e", "d", ",", " ">>
X_WinStatsHead ==
    <<"P", "i", "n", "g", " ", "s", "t", "a", "t", "i", "s", "t", "i", "c",
      "s", " ", "f", "o", "r", " ", "1", "0", ".", "0", ".", "0", ".", "1",
      ":", "\r", "\n", " ", " ", " ", " ", "P", "a", "c", "k", "e", "t", "s",
      ":", " ", "S", "e", "n", "t", " ", "=", " ">>
X_WinLossTail ==
    <<"%", " ", "l", "o", "s", "s", ")", ",", "\r", "\n">>
X_WinRtt ==
    <<"A", "p", "p", "r", "o", "x", "i", "m", "a", "t", "e", " ", "r", "o",
      "u", "n", "d", " ", "t", "r", "i", "p", " ", "t", "i", "m", "e", "s",
      " ", "i", "n", " ", "m", "i", "l", "l", "i", "-", "s", "e", "c", "o",
      "n", "d", "s", ":", "\r", "\n", " ", " ", " ", " ", "M", "i", "n", "i",
      "m", "u", "m", " ", "=", " ", "1", "0", "m", "s", ",", " ", "M", "a",
      "x", "i", "m", "u", "m", " ", "=", " ", "2", "0", "m", "s", ",", " ",
      "A", "v", "e", "r", "a", "g", "e", " ", "=", " ", "1", "5", "m", "s",
      "\r", "\n">>
X_Unknown ==
    <<"p", "i", "n", "g", ":", " ", "u", "n", "k", "n", "o", "w", "n", " ",
      "h", "o", "s", "t", "\n">>
X_WinLostOpen ==
    <<" ", "(">>

NoPingTool == [exec |-> {"/sbin/ip"},
               path |-> [t \in ToolNames |-> IF t = "ping" THEN "" ELSE "/usr/bin/" \o t]]

Hosts == {"", "10.0.0.1"}

PingOptionValues ==
    {NilOptions} \cup
    [nil : {FALSE}, Count : {0, 3}, Timeout : {0, Second \div 2, 2 * Second},
     Size : {-1, 64}]

\* the percentage texts a summary line may carry; <<>>: none
PctTexts == {<<>>, <<"0">>, <<"5", "0">>, <<"1", "0", "0">>}

\* the summary of iputils ping ("N received") and of BSD / busybox ping
\* ("N packets received")
LinuxSummary(tx, rx, style, pct) ==
    X_PingHeader \o Itoa(tx) \o T_ReTransmitted \o Itoa(rx)
        \o (IF style = "iputils" THEN X_Received ELSE X_PacketsReceived)
        \o (IF pct = <<>> THEN <<>> ELSE pct \o T_RePacketLoss)
        \o X_PingTime \o (IF rx > 0 THEN X_PingRtt ELSE <<>>)

WindowsSummary(tx, rx, lost) ==
    X_WinStatsHead \o Itoa(tx) \o T_ReWinReceived \o Itoa(rx) \o T_ReLost \o Itoa(lost)
        \o X_WinLostOpen \o Itoa(IF tx > 0 THEN (lost * 100) \div tx ELSE 0)
        \o X_WinLossTail \o (IF rx > 0 THEN X_WinRtt ELSE <<>>)

PingOutputs(os) ==
    {<<>>, X_Unknown} \cup
    (IF os = "windows"
     THEN {WindowsSummary(tx, rx, lost) :
               tx \in 0..MaxPackets, rx \in 0..MaxPackets, lost \in 0..MaxPackets}
     ELSE {LinuxSummary(c[1], c[2], c[3], c[4]) :
               c \in (0..MaxPackets) \X (0..MaxPackets) \X {"iputils", "busybox"}
                         \X PctTexts})

PingEnvs(os) ==
    [fs : {AllTools, NoPingTool}, tool : [err : BOOLEAN, out : PingOutputs(os)]]

PingInputs(os) == [host : Hosts, options : PingOptionValues, env : PingEnvs(os)]

\* the caller calls Ping and gets its answer
DoPing ==
    /\ pingOut = <<>>
    /\ pingOut' = <<Ping(goos, pingIn.host, pingIn.options, pingIn.env)>>
    /\ UNCHANGED <<goos, cacheVars, pingIn, exVars, findVars, discVars, dnsVars>>

InitPing ==
    /\ goos \in Platforms
    /\ instance = NilInstance
    /\ mu = 0
    /\ pc = [p \in Procs |-> "idle"]
    /\ op = [p \in Procs |-> "none"]
    /\ ret = [p \in Procs |-> 0]
    /\ err = [p \in Procs |-> FALSE]
    /\ nextRef = 0
    /\ calls = 0
    /\ stableRets = <<>>
    /\ discoveries = 0
    /\ failures = 0
    /\ refreshed = FALSE
    /\ waited = {}
    /\ handed = {}
    /\ retired = {}
    /\ handedAtCall = [p \in Procs |-> {}]
    /\ retiredAtCall = [p \in Procs |-> {}]
    /\ cachedAtCall = [p \in Procs |-> 0]
    /\ invalidatedAt = [p \in Procs |-> 0]
    /\ pingIn \in PingInputs(goos)
    /\ pingOut = <<>>
    /\ exIn = <<>>
    /\ exOut = <<>>
    /\ findIn = <<>>
    /\ findOut = <<>>
    /\ discIn = <<>>
    /\ discOut = <<>>
    /\ dnsIn = <<>>
    /\ dnsOut = <<>>

NextPing == DoPing

SpecPing == InitPing /\ [][NextPing]_vars

(***************************************************************************)
(* The inputs of extractDotted: a labelled line in the layout of ipconfig, *)
(* "   label . . . : value", its continuation lines, and the lines around  *)
(* them.                                                                   *)
(***************************************************************************)
MaxContinuations == 2

L_Key ==
    <<"K", "e", "y">>
T_Missing ==
    <<"M", "i", "s", "s", "i", "n", "g">>
V_8888 ==
    <<"8", ".", "8", ".", "8", ".", "8">>
V_8844 ==
    <<"8", ".", "8", ".", "4", ".", "4">>
V_1111 ==
    <<"1", ".", "1", ".", "1", ".", "1">>
X_Description ==
    <<" ", " ", " ", "D", "e", "s", "c", "r", "i", "p", "t", "i", "o", "n",
      " ", ".", " ", ".", " ", ".", " ", ".", " ", ".", " ", ".", " ", ".",
      " ", ".", " ", ".", " ", ".", " ", ".", " ", ":", " ", "E", "t", "h",
      "e", "r", "n", "e", "t", " ", "A", "d", "a", "p", "t", "e", "r">>
X_GatewayLine ==
    <<" ", " ", " ", "D", "e", "f", "a", "u", "l", "t", " ", "G", "a", "t",
      "e", "w", "a", "y", " ", ".", " ", ".", " ", ".", " ", ".", " ", ".",
      " ", ".", " ", ".", " ", ".", " ", ".", " ", ":", " ", "1", "9", "2",
      ".", "1", "6", "8", ".", "1", ".", "1">>

Blanks(n) == [k \in 1..n |-> " "]

\* n times " ."
DotPadding(n) == [k \in 1..(2 * n) |-> IF k % 2 = 1 THEN " " ELSE "."]

\* three spaces, the label, " ." padding and " : ", with the value at column col
Labelled(label, col, value) ==
    T_Indent \o label \o DotPadding((col - 6 - Len(label)) \div 2) \o <<" ", ":", " ">>
        \o value

Continuation(indent, value) == Blanks(indent) \o value

Continuations(indent, values) == [k \in 1..Len(values) |-> Continuation(indent, values[k])]

ExLabels == {L_Key, T_DNSServers}
ExValues == {V_8888, V_8844, V_1111}
\* the column of the value: 39 in ipconfig and in the test, 43 in the line
\* "   Key" + 17 x " ." + " : 8.8.8.8", 35 in a narrower layout
ExColumns == {35, ValueColumn, 43}
ExIndents == {ValueColumn, ValueColumn + 1}
ExContinuations == UNION {[1..k -> ExValues] : k \in 0..MaxContinuations}

\* lists of lines without a labelled line, the empty list among them
ExUnlabelled == {<<>>, <<X_Description>>, <<X_Description, X_GatewayLine>>}

ExInputs ==
    {[label |-> <<>>, key |-> k, column |-> 0, values |-> <<>>, indent |-> 0,
      lines |-> ls] : k \in ExLabels \cup {T_Missing}, ls \in ExUnlabelled}
    \cup
    {[label |-> c[1], key |-> c[2], column |-> c[3], values |-> <<c[4]>> \o c[5],
      indent |-> c[6],
      lines |-> (IF c[7] THEN <<X_Description>> ELSE <<>>)
                   \o <<Labelled(c[1], c[3], c[4])>> \o Continuations(c[6], c[5])
                   \o (IF c[8] THEN <<X_GatewayLine>> ELSE <<>>)] :
        c \in {d \in ExLabels \X (ExLabels \cup {T_Missing}) \X ExColumns \X ExValues
                       \X ExContinuations \X ExIndents \X BOOLEAN \X BOOLEAN :
                   d[2] \in {d[1], T_Missing}}}

\* the caller calls extractDotted and gets its answer
DoExtract ==
    /\ exOut = <<>>
    /\ exOut' = <<extractDotted(exIn.lines, exIn.key)>>
    /\ UNCHANGED <<goos, cacheVars, pingVars, exIn, findVars, discVars, dnsVars>>

InitExtract ==
    /\ goos = "windows"
    /\ instance = NilInstance
    /\ mu = 0
    /\ pc = [p \in Procs |-> "idle"]
    /\ op = [p \in Procs |-> "none"]
    /\ ret = [p \in Procs |-> 0]
    /\ err = [p \in Procs |-> FALSE]
    /\ nextRef = 0
    /\ calls = 0
    /\ stableRets = <<>>
    /\ discoveries = 0
    /\ failures = 0
    /\ refreshed = FALSE
    /\ waited = {}
    /\ handed = {}
    /\ retired = {}
    /\ handedAtCall = [p \in Procs |-> {}]
    /\ retiredAtCall = [p \in Procs |-> {}]
    /\ cachedAtCall = [p \in Procs |-> 0]
    /\ invalidatedAt = [p \in Procs |-> 0]
    /\ pingIn = <<>>
    /\ pingOut = <<>>
    /\ exIn \in ExInputs
    /\ exOut = <<>>
    /\ findIn = <<>>
    /\ findOut = <<>>
    /\ discIn = <<>>
    /\ discOut = <<>>
    /\ dnsIn = <<>>
    /\ dnsOut = <<>>

NextExtract == DoExtract

SpecExtract == InitExtract /\ [][NextExtract]_vars

(***************************************************************************)
(* One GetConfig call on an empty cache, under every environment of a      *)
(* family that varies each step of the discovery.                          *)
(***************************************************************************)
\* GetConfig, lines 39-92, with instance = nil: what it returns, the commands
\* it issued, and what it leaves in the cache
GetConfigCold(os, env) ==
    LET st == Discover(os, env)
    IN [err |-> st.err, cmds |-> st.cmds,
        instance |-> IF st.err = "" THEN Publish(NilInstance, 1, st.net) ELSE NilInstance,
        ret |-> IF st.err = "" THEN 1 ELSE 0]

NoIfconfigTool ==
    [exec |-> {"/sbin/ip"},
     path |-> [t \in ToolNames |-> IF t = "ifconfig" THEN "" ELSE "/usr/bin/" \o t]]
NoArpTool ==
    [exec |-> {"/sbin/ip", "/sbin/ifconfig"},
     path |-> [t \in ToolNames |-> IF t = "arp" THEN "" ELSE "/usr/bin/" \o t]]

\* what `ip route get` answers, with the interface name its fifth field gives
RouteChoices ==
    {[out |-> Ran(X_RouteOk), name |-> X_eth0, shape |-> TRUE],
     [out |-> Ran(X_RouteTun), name |-> X_tun0, shape |-> TRUE],
     [out |-> Ran(X_RouteBad), name |-> X_BadName, shape |-> TRUE],
     [out |-> Ran(X_RouteShort), name |-> <<>>, shape |-> FALSE],
     [out |-> Exited, name |-> <<>>, shape |-> FALSE]}

\* the lease file as grep prints it: one domain-name-servers line per entry
\* of lease (each a list of addresses), then the domain-name line
V_Lan10 == <<"1", "9", "2", ".", "1", "6", "8", ".", "1", ".", "1", "0">>
V_Lan1 == <<"1", "9", "2", ".", "1", "6", "8", ".", "1", ".", "1">>
X_ServersOption ==
    <<" ", " ", "o", "p", "t", "i", "o", "n", " ", "d", "o", "m", "a", "i", "n", "-", "n", "a", "m", "e", "-", "s", "e", "r", "v", "e", "r", "s", " ">>
X_DomainOption ==
    <<" ", " ", "o", "p", "t", "i", "o", "n", " ", "d", "o", "m", "a", "i", "n", "-", "n", "a", "m", "e", " ", "\"", "l", "a", "n", "\"", ";", "\n">>

MaxLeaseLines == 2

RECURSIVE LeaseText(_)
LeaseText(lease) ==
    IF lease = <<>> THEN X_DomainOption
    ELSE X_ServersOption \o Join(Head(lease), T_Comma) \o <<";", "\n">>
             \o LeaseText(Tail(lease))

LeaseLines == {<<V_8888, V_8844>>, <<V_Lan10, V_Lan1>>, <<V_8888>>}

Leases == UNION {[1..n -> LeaseLines] : n \in 0..MaxLeaseLines}

GrepChoices ==
    {[out |-> Ran(LeaseText(l)), lease |-> l] : l \in Leases}
        \cup {[out |-> Exited, lease |-> <<>>]}

\* routed: the route step gave an interface name
DiscInputsLinux ==
    {[env |-> [LinuxOk EXCEPT !.fs = c[1], !.route = c[2].out, !.ifaces = c[3],
                              !.ifconfig = c[4], !.grep = c[5].out, !.arp = c[6]],
      name |-> c[2].name,
      routed |-> c[1] # NoIpTool /\ c[2].shape,
      lease |-> c[5].lease] :
        c \in {AllTools, NoIpTool, NoIfconfigTool, NoArpTool} \X RouteChoices
                  \X IfacesChoices \X {Ran(X_IfconfigOut), Exited}
                  \X GrepChoices \X {Ran(X_ArpOut), Exited}}

DiscInputsWindows ==
    {[env |-> [WindowsOk EXCEPT !.dialErr = c[1], !.udpAddr = c[2], !.ifacesErr = c[3],
                                !.localIP = c[4], !.ipconfig = c[5], !.arp = c[6],
                                !.loopVarPerIteration = c[7]],
      name |-> <<>>, routed |-> FALSE, lease |-> <<>>] :
        c \in BOOLEAN \X BOOLEAN \X BOOLEAN \X {X_IpLan, X_IpOther}
                  \X {Ran(X_Ipconfig), Exited} \X {Ran(X_ArpWin), Exited} \X BOOLEAN}

DiscInputs(os) == IF os = "windows" THEN DiscInputsWindows ELSE DiscInputsLinux

\* the caller calls GetConfig on the empty cache and gets its answer
DoGetConfigCold ==
    /\ discOut = <<>>
    /\ discOut' = <<GetConfigCold(goos, discIn.env)>>
    /\ UNCHANGED <<goos, cacheVars, pingVars, exVars, findVars, discIn, dnsVars>>

InitDisc ==
    /\ goos \in Platforms
    /\ CacheAtRest
    /\ pingIn = <<>>
    /\ pingOut = <<>>
    /\ exIn = <<>>
    /\ exOut = <<>>
    /\ findIn = <<>>
    /\ findOut = <<>>
    /\ discIn \in DiscInputs(goos)
    /\ discOut = <<>>
    /\ dnsIn = <<>>
    /\ dnsOut = <<>>

NextDisc == DoGetConfigCold

SpecDisc == InitDisc /\ [][NextDisc]_vars

(***************************************************************************)
(* DNS: NSLookup, Resolve and lookupSOA.  The resolver is the environment: *)
(* each of its queries answers ("ok"), fails at once ("error") or does not *)
(* answer before the deadline of the context it was given ("timeout").     *)
(***************************************************************************)
T_Http ==
    <<"h", "t", "t", "p", ":", "/", "/">>
T_Https ==
    <<"h", "t", "t", "p", "s", ":", "/", "/">>
T_Slash == <<"/">>
T_Dot == <<".">>

HasSuffix(s, p) == Len(s) >= Len(p) /\ SubSeq(s, Len(s) - Len(p) + 1, Len(s)) = p
TrimPrefix(s, p) == IF HasPrefix(s, p) THEN From(s, Len(p)) ELSE s
TrimSuffix(s, p) == IF HasSuffix(s, p) THEN Upto(s, Len(s) - Len(p)) ELSE s

\* variant: the domain is used as given
CleanDomainNothing(domain) == domain

\* NSLookup lines 48-50, Resolve lines 84-86
CleanDomain(domain) ==
    TrimSuffix(TrimPrefix(TrimPrefix(domain, T_Http), T_Https), T_Slash)

\* variant: the empty domain is let through
DomainNeverEmpty(domain) == FALSE

\* NSLookup line 43, Resolve line 79
DomainEmpty(domain) == domain = <<>>

\* what the resolver answers when it answers
X_HostV4 ==
    <<"9", "3", ".", "1", "8", "4", ".", "2", "1", "6", ".", "3", "4">>
X_HostV6 ==
    <<"2", "6", "0", "6", ":", "2", "8", "0", "0", ":", ":", "1">>
X_Alias ==
    <<"a", "l", "i", "a", "s", ".", "e", "x", "a", "m", "p", "l", "e", ".",
      "n", "e", "t", ".">>
X_MailHost ==
    <<"m", "a", "i", "l", ".", "e", "x", "a", "m", "p", "l", "e", ".", "c",
      "o", "m", ".">>
X_Ns1 ==
    <<"n", "s", "1", ".", "e", "x", "a", "m", "p", "l", "e", ".", "c", "o",
      "m", ".">>
X_Ns2 ==
    <<"n", "s", "2", ".", "e", "x", "a", "m", "p", "l", "e", ".", "c", "o",
      "m", ".">>
X_Spf ==
    <<"v", "=", "s", "p", "f", "1", " ", "-", "a", "l", "l">>
X_PtrName ==
    <<"d", "n", "s", ".", "g", "o", "o", "g", "l", "e", ".">>
X_HostAddrs == <<X_HostV4, X_HostV6, X_HostV4>>
X_MxRecords == <<[Host |-> X_MailHost, Pref |-> 10]>>
X_NsRecords == <<[Host |-> X_Ns1], [Host |-> X_Ns2]>>
X_TxtRecords == <<X_Spf>>
X_PtrNames == <<X_PtrName>>

\* net.ParseIP(addr) with ip.To4() != nil
IsIPv4(a) == ParseIP(a) # <<>>

\* net.ParseIP(addr) with ip.To4() = nil, restricted to hexadecimal groups
\* separated by colons
IsIPv6(a) ==
    /\ \A i \in 1..Len(a) : a[i] \in HexDigits \cup {":"}
    /\ Cardinality({i \in 1..Len(a) : a[i] = ":"}) >= 2

\* a resolver query made with a context: it answers only when the deadline
\* of the context has not passed and the resolver answers in time
Answered(outcome, expired) == ~expired /\ outcome \notin {"error", "timeout"}

\* the deadline of the context has passed after the query
Expired(outcome, expired) == expired \/ outcome = "timeout"

\* NSLookup lines 65-72: duplicates removed, first occurrences kept
RECURSIVE Unique(_)
Unique(ips) ==
    IF ips = <<>> THEN <<>>
    ELSE LET rest == Unique(SubSeq(ips, 1, Len(ips) - 1))
             last == ips[Len(ips)]
         IN IF \E i \in 1..Len(rest) : rest[i] = last THEN rest ELSE Append(rest, last)

NilIPs == [nil |-> TRUE, ips |-> <<>>]

\* NSLookup, lines 42-75
NSLookup(domain, res) ==
    LET name == CleanDomain(domain)
        asked == <<[q |-> "host", name |-> name]>>
    IN IF DomainEmpty(domain)
       THEN [err |-> "domain cannot be empty", result |-> NilIPs, asked |-> <<>>]
       ELSE IF ~Answered(res.host, FALSE)
            THEN [err |-> "failed to lookup", result |-> NilIPs, asked |-> asked]
            ELSE [err |-> "", result |-> [nil |-> FALSE, ips |-> Unique(X_HostAddrs)],
                  asked |-> asked]

RecordsZero ==
    [nil |-> FALSE, Domain |-> <<>>, A |-> <<>>, AAAA |-> <<>>, CNAME |-> <<>>,
     MX |-> <<>>, NS |-> <<>>, TXT |-> <<>>, SOA |-> <<>>, PTR |-> <<>>]
NilRecords == [RecordsZero EXCEPT !.nil = TRUE]

\* Resolve lines 100-110
AOf(ok) == IF ok THEN SelectSeq(X_HostAddrs, IsIPv4) ELSE <<>>
AAAAOf(ok) == IF ok THEN SelectSeq(X_HostAddrs, IsIPv6) ELSE <<>>

\* Resolve lines 113-115; the answer "same" is the domain itself
CNAMEOf(ok, outcome, name) ==
    LET cname == IF outcome = "same" THEN name \o T_Dot ELSE X_Alias
    IN IF ok /\ cname # name \o T_Dot THEN <<TrimSuffix(cname, T_Dot)>> ELSE <<>>

\* Resolve lines 118-125
MXOf(ok) ==
    IF ok THEN [i \in 1..Len(X_MxRecords) |->
                   [Host |-> TrimSuffix(X_MxRecords[i].Host, T_Dot),
                    Priority |-> X_MxRecords[i].Pref]]
    ELSE <<>>

\* Resolve lines 128-132
NSOf(ok) ==
    IF ok THEN [i \in 1..Len(X_NsRecords) |-> TrimSuffix(X_NsRecords[i].Host, T_Dot)]
    ELSE <<>>

\* Resolve lines 135-137
TXTOf(ok) == IF ok THEN X_TxtRecords ELSE <<>>

\* Resolve lines 143-147
PTROf(ok, name) == IF ParseIP(name) # <<>> /\ ok THEN X_PtrNames ELSE <<>>

\* lookupSOA, lines 153-172: a query with a context of its own; <<>> is nil
lookupSOA(name, res) ==
    IF Answered(res.soa, FALSE) /\ Len(X_NsRecords) > 0
    THEN [NS |-> TrimSuffix(X_NsRecords[1].Host, T_Dot)]
    ELSE <<>>

\* Resolve, lines 78-150: the queries share one context, expired1..expired5
\* tell whether its deadline has passed after each of them
Resolve(domain, res) ==
    LET name == CleanDomain(domain)
        expired1 == Expired(res.host, FALSE)
        expired2 == Expired(res.cname, expired1)
        expired3 == Expired(res.mx, expired2)
        expired4 == Expired(res.ns, expired3)
        expired5 == Expired(res.txt, expired4)
        queries == <<"host", "cname", "mx", "ns", "txt", "soa">>
                       \o (IF ParseIP(name) # <<>> THEN <<"ptr">> ELSE <<>>)
    IN IF DomainEmpty(domain)
       THEN [err |-> "domain cannot be empty", result |-> NilRecords, asked |-> <<>>]
       ELSE [err |-> "",
             result |->
                 [nil |-> FALSE, Domain |-> name,
                  A |-> AOf(Answered(res.host, FALSE)),
                  AAAA |-> AAAAOf(Answered(res.host, FALSE)),
                  CNAME |-> CNAMEOf(Answered(res.cname, expired1), res.cname, name),
                  MX |-> MXOf(Answered(res.mx, expired2)),
                  NS |-> NSOf(Answered(res.ns, expired3)),
                  TXT |-> TXTOf(Answered(res.txt, expired4)),
                  SOA |-> lookupSOA(name, res),
                  PTR |-> PTROf(Answered(res.ptr, expired5), name)],
             asked |-> [i \in 1..Len(queries) |-> [q |-> queries[i], name |-> name]]]

(***************************************************************************)
(* The inputs of the DNS calls: a domain built from scheme prefixes, a     *)
(* bare name and trailing slashes, and a resolver.                         *)
(***************************************************************************)
MaxSlashes == 2

X_Example ==
    <<"e", "x", "a", "m", "p", "l", "e", ".", "c", "o", "m">>
X_Quad8 ==
    <<"8", ".", "8", ".", "8", ".", "8">>

DnsSchemes == {<<>>, <<T_Http>>, <<T_Https>>, <<T_Http, T_Https>>, <<T_Https, T_Http>>}
DnsNames == {X_Example, X_Quad8}

RECURSIVE Concat(_)
Concat(parts) == IF parts = <<>> THEN <<>> ELSE Head(parts) \o Concat(Tail(parts))

Slashes(n) == [k \in 1..n |-> "/"]

DnsDomains ==
    {[domain |-> <<>>, schemes |-> <<>>, bare |-> <<>>, slashes |-> 0]} \cup
    {[domain |-> Concat(sc) \o b \o Slashes(n), schemes |-> sc, bare |-> b, slashes |-> n] :
        sc \in DnsSchemes, b \in DnsNames, n \in 0..MaxSlashes}

Resolvers ==
    [host : {"ok", "error", "timeout"}, cname : {"same", "alias", "error", "timeout"},
     mx : {"ok", "error", "timeout"}, ns : {"ok", "error", "timeout"},
     txt : {"ok", "error", "timeout"}, soa : {"ok", "error"}, ptr : {"ok", "error"}]

\* NSLookup only asks for the host
AllOk == [host |-> "ok", cname |-> "same", mx |-> "ok", ns |-> "ok", txt |-> "ok",
          soa |-> "ok", ptr |-> "ok"]
HostResolvers == {[AllOk EXCEPT !.host = o] : o \in {"ok", "error", "timeout"}}

DnsInputs ==
    {[fn |-> "Resolve", in |-> d, res |-> r] : d \in DnsDomains, r \in Resolvers}
    \cup {[fn |-> "NSLookup", in |-> d, res |-> r] : d \in DnsDomains, r \in HostResolvers}

\* the caller calls NSLookup and gets its answer
DoNSLookup ==
    /\ dnsOut = <<>>
    /\ dnsIn.fn = "NSLookup"
    /\ dnsOut' = <<NSLookup(dnsIn.in.domain, dnsIn.res)>>
    /\ UNCHANGED <<goos, cacheVars, pingVars, exVars, findVars, discVars, dnsIn>>

\* the caller calls Resolve and gets its answer
DoResolve ==
    /\ dnsOut = <<>>
    /\ dnsIn.fn = "Resolve"
    /\ dnsOut' = <<Resolve(dnsIn.in.domain, dnsIn.res)>>
    /\ UNCHANGED <<goos, cacheVars, pingVars, exVars, findVars, discVars, dnsIn>>

InitDns ==
    /\ goos = "linux"
    /\ CacheAtRest
    /\ pingIn = <<>>
    /\ pingOut = <<>>
    /\ exIn = <<>>
    /\ exOut = <<>>
    /\ findIn = <<>>
    /\ findOut = <<>>
    /\ discIn = <<>>
    /\ discOut = <<>>
    /\ dnsIn \in DnsInputs
    /\ dnsOut = <<>>

NextDns == DoNSLookup \/ DoResolve

SpecDns == InitDns /\ [][NextDns]_vars

(***************************************************************************)
(* The inputs of findCommand: a name, candidate paths, and a file system.  *)
(***************************************************************************)
MaxPaths == 3

FindCandidates == {"/bin/ip", "/sbin/ip", "/usr/bin/ip"}
FindPaths == UNION {[1..k -> FindCandidates] : k \in 0..MaxPaths}
FindFileSystems ==
    {[exec |-> e, path |-> [t \in ToolNames |-> IF t = "ip" THEN found ELSE ""]] :
        e \in SUBSET FindCandidates, found \in {"", "/opt/bin/ip"}}
FindInputs == [name : {"ip"}, paths : FindPaths, fs : FindFileSystems]

\* the caller calls findCommand and gets its answer
DoFind ==
    /\ findOut = <<>>
    /\ findOut' = <<findCommand(findIn.name, findIn.paths, findIn.fs)>>
    /\ UNCHANGED <<goos, cacheVars, pingVars, exVars, findIn, discVars, dnsVars>>

InitFind ==
    /\ goos = "linux"
    /\ CacheAtRest
    /\ pingIn = <<>>
    /\ pingOut = <<>>
    /\ exIn = <<>>
    /\ exOut = <<>>
    /\ findIn \in FindInputs
    /\ findOut = <<>>
    /\ discIn = <<>>
    /\ discOut = <<>>
    /\ dnsIn = <<>>
    /\ dnsOut = <<>>

NextFind == DoFind

SpecFind == InitFind /\ [][NextFind]_vars

(***************************************************************************)
(* Properties of the configuration cache.                                  *)
(***************************************************************************)
\* caller p has returned from a call
Finished(p) == pc[p] = "idle" /\ op[p] # "none"

\* C1: all GetConfig calls that return without error with no invalidation
\* between their returns return the one reference held in the cache.
C1_StableIdentity ==
    \A i \in 1..Len(stableRets) :
        instance.id # 0 /\ stableRets[i] = Returned(instance)

\* two callers hold the same reference, returned in one stable period
C1_Witness ==
    /\ Len(stableRets) >= 2
    /\ \E p, q \in Procs :
          /\ p # q /\ Finished(p) /\ Finished(q)
          /\ op[p] = "GetConfig" /\ op[q] = "GetConfig"
          /\ ~err[p] /\ ~err[q] /\ ret[p] = ret[q] /\ ret[p] = instance.id

\* C2 as stated: on a cold start without RefreshConfig, discovery runs exactly
\* once and every call returns that discovery's result.
C2_SingleDiscovery ==
    ~refreshed =>
        /\ discoveries <= 1
        /\ \A p, q \in Procs :
              Finished(p) /\ Finished(q) => ret[p] = ret[q] /\ err[p] = err[q]

\* C2 as amended: on a cold start without RefreshConfig, at most one caller
\* is inside GetConfig at a time, at most one discovery succeeds, every other
\* discovery run is a failed one whose caller got the error and no snapshot,
\* and every call that returns without error returns the reference of the one
\* successful discovery, which is the cached one.
C2_ColdStart ==
    ~refreshed =>
        /\ Cardinality({p \in Procs : pc[p] = "getBody"}) <= 1
        /\ nextRef <= 1
        /\ discoveries = failures + nextRef
        /\ \A p \in Procs :
              Finished(p) =>
                  IF err[p] THEN ret[p] = 0
                  ELSE ret[p] = 1 /\ nextRef = 1 /\ instance.id = 1

\* every caller has returned the reference of the single discovery, which ran
\* while the other callers stood at the lock
C2_Witness ==
    /\ ~refreshed
    /\ discoveries = 1
    /\ Cardinality(waited) >= 2
    /\ \A p \in Procs : Finished(p) /\ ~err[p] /\ ret[p] = instance.id

\* C3: a GetConfig call that starts after a RefreshConfig call returned never
\* returns a reference that had been returned before that RefreshConfig call
\* began.
C3_RefreshReplaces ==
    \A p \in Procs :
        Finished(p) /\ op[p] = "GetConfig" /\ ~err[p] => ret[p] \notin retiredAtCall[p]

\* a GetConfig call that began after a completed refresh has returned
C3_Witness ==
    \E p \in Procs :
        /\ Finished(p) /\ op[p] = "GetConfig" /\ ~err[p]
        /\ retiredAtCall[p] # {}
        /\ ret[p] = instance.id

\* C4 as stated: a call whose discovery fails returns an error and no
\* snapshot, and the snapshot cached when the call began is still the cached
\* one when the call returns.
C4_FailureKeepsSnapshot ==
    [][\A p \in Procs :
          (pc[p] = "getBody" /\ pc'[p] = "idle" /\ err'[p]) =>
              /\ ret'[p] = 0
              /\ cachedAtCall[p] # 0 => instance'.id = cachedAtCall[p]]_vars

\* C5 as stated: every snapshot held in the cache has a non-empty
\* InterfaceName and a non-empty HardwareAddress.
C5_SnapshotIdentity ==
    instance.id # 0 =>
        /\ instance.net.InterfaceName # <<>>
        /\ instance.net.HardwareAddress # <<>>

(***************************************************************************)
(* Properties of Ping.                                                     *)
(***************************************************************************)
\* C6: Ping returns an error and a nil result exactly when host is empty; for
\* every other host it returns no error and a result whose Host is the host.
C6_ErrorIffEmptyHost ==
    pingOut # <<>> =>
        LET a == pingOut[1]
        IN /\ a.err # "" <=> pingIn.host = ""
           /\ a.err # "" => a.result.nil
           /\ a.err = "" => ~a.result.nil /\ a.result.Host = pingIn.host

\* the ping tool could not be started, and Ping still answered with a result
C6_Witness ==
    /\ pingOut # <<>>
    /\ pingIn.host # ""
    /\ pingIn.env.fs = NoPingTool
    /\ pingOut[1].err = ""
    /\ pingOut[1].result.Host = pingIn.host
    /\ pingOut[1].result.ErrorMessage # ""

\* C7 as stated: in every result, PacketLoss = Lost / Sent * 100 when
\* Sent > 0 and PacketLoss = 0 when Sent = 0.
C7_PacketLossFormula ==
    pingOut # <<>> /\ ~pingOut[1].result.nil =>
        LET r == pingOut[1].result
        IN IF r.Sent > 0 THEN r.PacketLoss.n * r.Sent = r.Lost * 100 * r.PacketLoss.d
           ELSE r.PacketLoss.n = 0

\* C8 as stated: in every result, Success is true exactly when Received > 0.
C8_SuccessIffReceived ==
    pingOut # <<>> /\ ~pingOut[1].result.nil =>
        (pingOut[1].result.Success <=> pingOut[1].result.Received > 0)

\* C8 as amended: in every result, Success is true exactly when Sent > 0 and
\* Received > 0.
C8_SuccessIffSentAndReceived ==
    pingOut # <<>> /\ ~pingOut[1].result.nil =>
        (pingOut[1].result.Success <=>
            pingOut[1].result.Sent > 0 /\ pingOut[1].result.Received > 0)

\* the tool reported packets received and none sent: no success
C8_Witness ==
    /\ pingOut # <<>>
    /\ ~pingOut[1].result.nil
    /\ pingOut[1].result.Sent = 0
    /\ pingOut[1].result.Received > 0
    /\ ~pingOut[1].result.Success

\* C9 as stated: a nil options value, or a field <= 0, is replaced by the
\* default of the platform (Count 4, Timeout 4s, Size 56, or 32 on Windows);
\* a field > 0 is used as given.
C9_OptionDefaults ==
    pingOut # <<>> /\ pingOut[1].err = "" =>
        LET given == pingIn.options
            used == pingOut[1].used
            size == IF goos = "windows" THEN 32 ELSE 56
        IN /\ used.Count = IF given.nil \/ given.Count <= 0 THEN 4 ELSE given.Count
           /\ used.Timeout = IF given.nil \/ given.Timeout <= 0 THEN 4 * Second
                             ELSE given.Timeout
           /\ used.Size = IF given.nil \/ given.Size <= 0 THEN size ELSE given.Size
           /\ pingOut[1].args[2] = Itoa(used.Count)
           /\ pingOut[1].args[6] = Itoa(used.Size)

(***************************************************************************)
(* Properties of extractDotted.                                            *)
(***************************************************************************)
\* the lines "   Key" + 17 x " ." + " : 8.8.8.8" and 40 spaces + "8.8.4.4",
\* searched for "Key"
IsKeyExample ==
    /\ exIn.key = L_Key
    /\ exIn.lines = <<Labelled(L_Key, 43, V_8888), Continuation(40, V_8844)>>

V_SpecFirst ==
    <<".", " ", ":", " ", "8", ".", "8", ".", "8", ".", "8">>

\* C10 as stated: for a labelled line followed by k continuation lines,
\* extractDotted returns the k+1 bare values in input order, in the layout of
\* the test and for the example lines alike.
C10_BareValues ==
    exOut # <<>> /\ exIn.key = exIn.label => exOut[1] = exIn.values

\* C10 as amended: when the value of the labelled line starts at column 39,
\* extractDotted returns the k+1 bare values in input order; for the example
\* lines, whose value starts at column 43, it returns ". : 8.8.8.8" and
\* "8.8.4.4".
C10_ValuesAtColumn39 ==
    exOut # <<>> /\ exIn.key = exIn.label =>
        /\ exIn.column = ValueColumn => exOut[1] = exIn.values
        /\ IsKeyExample => exOut[1] = <<V_SpecFirst, V_8844>>

\* a labelled line in the layout of the test, with two continuation lines
C10_Witness ==
    /\ exOut # <<>>
    /\ exIn.key = exIn.label
    /\ exIn.column = ValueColumn
    /\ Len(exIn.values) = 3
    /\ exOut[1] = exIn.values

\* a line carries the label: it starts with three spaces and the label
Carried(lines, key) == \E i \in 1..Len(lines) : HasPrefix(lines[i], T_Indent \o key)

\* C11: for a label that no line carries, the empty list of lines included,
\* extractDotted returns the one-element list [""]; it never returns an empty
\* list.
C11_NotFoundSentinel ==
    exOut # <<>> =>
        /\ Len(exOut[1]) >= 1
        /\ ~Carried(exIn.lines, exIn.key) => exOut[1] = <<<<>>>>

\* the empty list of lines was searched and the answer is [""]
C11_Witness ==
    /\ exOut # <<>>
    /\ exIn.lines = <<>>
    /\ exOut[1] = <<<<>>>>

(***************************************************************************)
(* Properties of findCommand.                                              *)
(***************************************************************************)
\* the positions of the candidates that pass the executable lookup
Passing == {i \in 1..Len(findIn.paths) : findIn.paths[i] \in findIn.fs.exec}

\* C12: findCommand returns the first candidate, in list order, that passes
\* the executable lookup; if none passes, the PATH lookup of the name; it
\* returns "" exactly when every candidate and the PATH lookup fail.
C12_ResolutionOrder ==
    findOut # <<>> =>
        /\ Passing # {} =>
               findOut[1] = findIn.paths[CHOOSE i \in Passing : \A j \in Passing : i <= j]
        /\ Passing = {} => findOut[1] = findIn.fs.path[findIn.name]
        /\ findOut[1] = "" <=> Passing = {} /\ findIn.fs.path[findIn.name] = ""

\* the first candidate fails, a later one passes while the PATH lookup would
\* succeed too: the candidate is the answer
C12_Witness ==
    /\ findOut # <<>>
    /\ Len(findIn.paths) >= 2
    /\ 1 \notin Passing
    /\ 2 \in Passing
    /\ findIn.fs.path[findIn.name] # ""
    /\ findOut[1] = findIn.paths[2]

(***************************************************************************)
(* Properties of NSLookup and Resolve.                                     *)
(***************************************************************************)
\* the names the call resolved under: those passed to the resolver and, for
\* Resolve, the Domain of the record set
ResolvedNames ==
    {dnsOut[1].asked[i].name : i \in 1..Len(dnsOut[1].asked)}
        \cup (IF dnsIn.fn = "Resolve" /\ ~dnsOut[1].result.nil
              THEN {dnsOut[1].result.Domain} ELSE {})

Stripped(n) == ~HasPrefix(n, T_Http) /\ ~HasPrefix(n, T_Https) /\ ~HasSuffix(n, T_Slash)

\* C13 as stated: for every non-empty input the name resolved under never
\* starts with "http://" or "https://" and never ends with "/"; inputs that
\* differ only in scheme prefixes and trailing slashes are resolved under the
\* same name, the bare one.
C13_NormalizedDomain ==
    dnsOut # <<>> /\ dnsIn.in.domain # <<>> =>
        \A n \in ResolvedNames : Stripped(n) /\ n = dnsIn.in.bare

\* C13 as amended: one leading "http://", then one leading "https://", then
\* one trailing "/" are removed.  An input with at most one scheme prefix (or
\* "http://https://") and at most one trailing slash is resolved under its bare
\* name; "https://http://" + name is resolved under "http://" + name, and of
\* two or more trailing slashes all but one remain.
C13_OneSchemeOneSlash ==
    dnsOut # <<>> /\ dnsIn.in.domain # <<>> =>
        \A n \in ResolvedNames :
            /\ dnsIn.in.schemes # <<T_Https, T_Http>> /\ dnsIn.in.slashes <= 1
                   => n = dnsIn.in.bare
            /\ dnsIn.in.schemes = <<T_Https, T_Http>> => HasPrefix(n, T_Http \o dnsIn.in.bare)
            /\ dnsIn.in.slashes >= 2 => HasSuffix(n, dnsIn.in.bare \o Slashes(dnsIn.in.slashes - 1))

\* Resolve was given "https://" + name + "/" and reports the bare name
C13_Witness ==
    /\ dnsOut # <<>>
    /\ dnsIn.fn = "Resolve"
    /\ dnsIn.in.schemes = <<T_Https>>
    /\ dnsIn.in.slashes = 1
    /\ dnsOut[1].result.Domain = dnsIn.in.bare
    /\ ResolvedNames = {dnsIn.in.bare}

\* C14: Resolve("") and NSLookup("") return a nil result and an error, and
\* make no resolver call.
C14_EmptyRejected ==
    dnsOut # <<>> /\ dnsIn.in.domain = <<>> =>
        /\ dnsOut[1].err # ""
        /\ dnsOut[1].result.nil
        /\ dnsOut[1].asked = <<>>

\* Resolve was given the empty domain and answered with the error
C14_Witness ==
    /\ dnsOut # <<>>
    /\ dnsIn.fn = "Resolve"
    /\ dnsIn.in.domain = <<>>
    /\ dnsOut[1].err = "domain cannot be empty"
    /\ dnsOut[1].asked = <<>>

\* C15 as stated: for every non-empty domain and every combination of
\* outcomes of the queries, Resolve returns no error and a record set in which
\* every category is what its own query gives: empty when that query failed,
\* its answer otherwise, whatever happened to the other queries.
C15_FailureIsolation ==
    dnsOut # <<>> /\ dnsIn.fn = "Resolve" /\ dnsIn.in.domain # <<>> =>
        LET r == dnsOut[1].result
            res == dnsIn.res
        IN /\ dnsOut[1].err = ""
           /\ ~r.nil
           /\ r.A = AOf(Answered(res.host, FALSE))
           /\ r.AAAA = AAAAOf(Answered(res.host, FALSE))
           /\ r.CNAME = CNAMEOf(Answered(res.cname, FALSE), res.cname, r.Domain)
           /\ r.MX = MXOf(Answered(res.mx, FALSE))
           /\ r.NS = NSOf(Answered(res.ns, FALSE))
           /\ r.TXT = TXTOf(Answered(res.txt, FALSE))
           /\ r.SOA = lookupSOA(r.Domain, res)
           /\ r.PTR = PTROf(Answered(res.ptr, FALSE), r.Domain)

(***************************************************************************)
(* Properties of the Linux discovery.                                      *)
(***************************************************************************)
\* the interface name `ip route` gave carries a shell metacharacter
BadName == goos = "linux" /\ discIn.routed /\ ContainsAny(discIn.name, ShellMeta)

\* the lease lookups the discovery issued
LeaseLookups == {i \in 1..Len(discOut[1].cmds) : discOut[1].cmds[i].tool = "grep"}

\* the lease lookup is never issued for a name with a shell metacharacter
NoUnsafeLookup ==
    \A i \in LeaseLookups : ~ContainsAny(discOut[1].cmds[i].arg, ShellMeta)

\* the host has an interface of the name `ip route` gave
InterfaceExists ==
    \E i \in 1..Len(discIn.env.ifaces) : discIn.env.ifaces[i].Name = discIn.name

\* `ifconfig <iface>` was found and ran without error
IfconfigRan == discIn.env.fs # NoIfconfigTool /\ ~discIn.env.ifconfig.err

\* C16 as stated: if the interface name from `ip route` has a shell
\* metacharacter, discovery fails with the invalid-interface-name error, the
\* lease lookup is not issued and nothing is cached; the lease lookup is never
\* issued with such a name.
C16_SanitizationError ==
    discOut # <<>> =>
        /\ NoUnsafeLookup
        /\ BadName => /\ discOut[1].err = "invalid interface name"
                      /\ LeaseLookups = {}
                      /\ discOut[1].instance = NilInstance

\* C16 as amended: if the interface name from `ip route` has a shell
\* metacharacter, discovery fails, the lease lookup is not issued and nothing
\* is cached; the error is the invalid-interface-name error when the interface
\* lookup and `ifconfig` succeeded, and the error of that earlier step
\* otherwise.  The lease lookup is never issued with such a name.
C16_SanitizationAborts ==
    discOut # <<>> =>
        /\ NoUnsafeLookup
        /\ BadName =>
              /\ discOut[1].err # ""
              /\ LeaseLookups = {}
              /\ discOut[1].instance = NilInstance
              /\ discOut[1].err = "invalid interface name" <=> InterfaceExists /\ IfconfigRan
              /\ ~InterfaceExists => discOut[1].err = "no such network interface"
              /\ InterfaceExists /\ ~IfconfigRan => discOut[1].err = "ifconfig failed"

\* the interface of the unusual name exists and ifconfig ran: the sanitization
\* check rejected the name
C16_Witness ==
    /\ discOut # <<>>
    /\ BadName
    /\ InterfaceExists
    /\ discOut[1].err = "invalid interface name"
    /\ \E i \in 1..Len(discOut[1].cmds) : discOut[1].cmds[i].tool = "ifconfig"
    /\ LeaseLookups = {}

\* every essential step succeeds: the `ip` tool, the shape of its output, the
\* interface lookup and the sanitization check
EssentialOk ==
    /\ goos = "linux"
    /\ discIn.routed
    /\ InterfaceExists
    /\ ~ContainsAny(discIn.name, ShellMeta)

\* the lease lookup ran without error
LeaseRan == ~discIn.env.grep.err

\* `arp` was found and ran without error
ArpRan == discIn.env.fs # NoArpTool /\ ~discIn.env.arp.err

\* C17 as stated: on Linux, when `ifconfig` or `arp` cannot be found or run,
\* discovery still succeeds and only the subnet mask, respectively the
\* gateway hardware address, is absent; discovery fails only when an
\* essential step fails.
C17_GracefulDegradation ==
    discOut # <<>> /\ EssentialOk /\ LeaseRan =>
        /\ discOut[1].err = ""
        /\ ~IfconfigRan => discOut[1].instance.net.SubnetMask = <<>>
        /\ ~ArpRan => discOut[1].instance.net.DefaultGatewayHardwareAddress = <<>>

(***************************************************************************)
(* Properties of the calls as a whole.                                     *)
(***************************************************************************)
\* C18 as stated: Ping never modifies the values passed to it, the
\* PingOptions value included.
C18_OptionsUntouched ==
    pingOut # <<>> => pingOut[1].options = pingIn.options

\* C19 as stated: every GetConfig and RefreshConfig call eventually returns
\* and the cache lock is always eventually released, even if a launched
\* command never exits on its own.
C19_BoundedWaiting ==
    /\ \A p \in Procs : (pc[p] # "idle") ~> (pc[p] = "idle")
    /\ (mu # 0) ~> (mu = 0)

\* C20: the cache holds nothing or the snapshot of a discovery that ran to
\* successful completion; a GetConfig call whose discovery fails returns
\* (nil, error) and leaves the cache as it was, empty, so that the next
\* GetConfig runs discovery again.
C20_NoPartialSnapshot ==
    /\ [](instance.id # 0 =>
             \E o \in CacheOutcomes[goos] : o.err = "" /\ o.done /\ instance.net = o.net)
    /\ [][\A p \in Procs :
              pc[p] = "getBody" /\ pc'[p] = "idle" /\ err'[p] =>
                  instance' = instance /\ instance'.id = 0 /\ ret'[p] = 0]_vars

\* a discovery failed, its caller got (nil, error), and a later call ran
\* discovery again on the still empty cache
C20_Witness ==
    /\ failures >= 1
    /\ discoveries >= 2
    /\ \E p \in Procs : Finished(p) /\ err[p] /\ ret[p] = 0
    /\ instance.id = 0

(***************************************************************************)
(* The DNS server list of the Linux discovery.                             *)
(***************************************************************************)
\* the addresses of a list, each once, in order of first occurrence
RECURSIVE FirstOccurrences(_)
FirstOccurrences(addrs) ==
    IF addrs = <<>> THEN <<>>
    ELSE LET rest == FirstOccurrences(SubSeq(addrs, 1, Len(addrs) - 1))
             last == addrs[Len(addrs)]
         IN IF \E i \in 1..Len(rest) : rest[i] = last THEN rest ELSE Append(rest, last)

\* the addresses on the domain-name-servers lines of the lease file
LeaseServers == Concat(discIn.lease)

\* the snapshot's DNS list, the white space around each entry set aside
ListedServers ==
    LET dns == discOut[1].instance.net.DNS
    IN [i \in 1..Len(dns) |-> TrimSpace(dns[i])]

\* C21 as stated: after a successful Linux discovery the snapshot's DNS list
\* holds every distinct server address of the domain-name-servers lease
\* lines exactly once, in order of first occurrence, and nothing else
\* (stated for lease files that name a server).
C21_DeduplicatedServers ==
    discOut # <<>> /\ goos = "linux" /\ discOut[1].err = "" /\ LeaseServers # <<>> =>
        ListedServers = FirstOccurrences(LeaseServers)

(***************************************************************************)
(* What a RefreshConfig call returns.                                      *)
(***************************************************************************)
\* C22: a snapshot a RefreshConfig call returns without error was published
\* after that call set instance = nil, by a discovery that started after it
\* (no caller is inside GetConfig's locked body when the call invalidates),
\* and is not the snapshot that was cached when the call began.
C22_RefreshNotStale ==
    /\ [][\A p \in Procs :
              pc[p] = "getBody" /\ pc'[p] = "idle" /\ op[p] = "RefreshConfig" /\ ~err'[p] =>
                  /\ ret'[p] > invalidatedAt[p]
                  /\ ret'[p] # cachedAtCall[p]]_vars
    /\ [][\A p \in Procs :
              pc[p] = "refLock" /\ pc'[p] = "getLock" =>
                  \A q \in Procs : pc[q] # "getBody"]_vars

\* a RefreshConfig call that began on a filled cache has returned a snapshot
\* published after it began, one that another caller's call returned too
C22_Witness ==
    \E p \in Procs :
        /\ Finished(p) /\ op[p] = "RefreshConfig" /\ ~err[p]
        /\ cachedAtCall[p] # 0
        /\ ret[p] \notin handedAtCall[p]
        /\ \E q \in Procs \ {p} : Finished(q) /\ ~err[q] /\ ret[q] = ret[p]

(***************************************************************************)
(* The ranges of the ping statistics and of the tool's timeout argument.   *)
(***************************************************************************)
\* C23 as stated: in every result Ping returns, for every tool output,
\* 0 <= Received <= Sent, 0 <= Lost <= Sent, Sent = Received + Lost and
\* 0 <= PacketLoss <= 100.
C23_StatisticsInRange ==
    pingOut # <<>> /\ ~pingOut[1].result.nil =>
        LET r == pingOut[1].result
        IN /\ 0 <= r.Received /\ r.Received <= r.Sent
           /\ 0 <= r.Lost /\ r.Lost <= r.Sent
           /\ r.Sent = r.Received + r.Lost
           /\ 0 <= r.PacketLoss.n /\ r.PacketLoss.n <= 100 * r.PacketLoss.d

\* the per-packet timeout Ping handed to the tool: the value after -W / -w
TimeoutArgument == Atoi(pingOut[1].args[4])

\* C24 as stated: whenever the effective options.Timeout is positive, the
\* timeout value Ping passes to the ping tool (whole seconds after -W
\* elsewhere, whole milliseconds after -w on Windows) is a positive integer
\* (stated for the calls in which the tool was found and started).
C24_TimeoutArgumentPositive ==
    /\ pingOut # <<>>
    /\ pingOut[1].args # <<>>
    /\ pingIn.env.fs = AllTools
    /\ pingOut[1].used.Timeout > 0
    => TimeoutArgument > 0

=============================================================================
